---- MODULE Spec2Model ----
(***************************************************************************)
(* Match lifecycle and rating engine of the Mario Kart leaderboard         *)
(* backend: match creation, result recording (two rating ladders, teammate *)
(* contributions, round and match completion) over a PostgreSQL database   *)
(* accessed through READ COMMITTED transactions.                           *)
(*                                                                         *)
(* Numbers that the code computes in f64 are computed here in fixed point: *)
(* a pairwise win probability is an integer number of millionths, a mean   *)
(* is a pair (sum, count), and rounding is Rust's f64::round (half away    *)
(* from zero).                                                             *)
(***************************************************************************)
EXTENDS Integers, Sequences, FiniteSets, TLC

(***************************************************************************)
(* Generic helpers                                                         *)
(***************************************************************************)
Range(s) == {s[i] : i \in 1..Len(s)}

Abs(x) == IF x < 0 THEN -x ELSE x

Max(a, b) == IF a > b THEN a ELSE b

Min(a, b) == IF a < b THEN a ELSE b

\* f64::round of the quotient num/den (den > 0): nearest, ties away from zero
RoundDiv(num, den) ==
  LET q == (2 * Abs(num) + den) \div (2 * den)
  IN  IF num < 0 THEN -q ELSE q

RECURSIVE SumSeq(_)
SumSeq(s) == IF s = <<>> THEN 0 ELSE Head(s) + SumSeq(Tail(s))

RECURSIVE SumOver(_, _)
SumOver(f, S) ==
  IF S = {} THEN 0
  ELSE LET k == CHOOSE x \in S : TRUE IN f[k] + SumOver(f, S \ {k})

\* the function f restricted to the keys in S
Restrict(f, S) == [k \in S |-> f[k]]

\* the elements of the set S of integers as an ascending sequence
RECURSIVE SortedSeq(_)
SortedSeq(S) ==
  IF S = {} THEN <<>>
  ELSE LET m == CHOOSE x \in S : \A y \in S : x <= y
       IN  <<m>> \o SortedSeq(S \ {m})

\* the players: ids in creation order
PlayerOrder == <<"a", "b", "c">>

Players == Range(PlayerOrder)

PlayerIndex(p) == CHOOSE i \in 1..Len(PlayerOrder) : PlayerOrder[i] = p

\* the players of the set S in creation order
SortedNames(S) == LET idx == SortedSeq({PlayerIndex(p) : p \in S})
                  IN  [i \in 1..Len(idx) |-> PlayerOrder[idx[i]]]

\* a table cell: <<>> when the row is absent, <<v>> when it holds v
NoRow == <<>>

Row(v) == <<v>>

Has(cell) == cell # <<>>

Val(cell) == cell[1]

(***************************************************************************)
(* services/elo.rs                                                         *)
(***************************************************************************)
K_FACTOR == 100

TOTAL_RACE_SIZE == 24

MAX_CPU_ELO == 1400

MIN_CPU_ELO == 600

CPU_ELO_DECREASE == 100

\* player_id of a CPU entry (Uuid::nil())
NilId == "nil"

\* fixed-point unit of a win probability
ScoreScale == 1000000

\* largest rating difference the table below covers
MaxRatingDiff == 1200

\* WinProbTable[d + MaxRatingDiff + 1] = 1 / (1 + 10^(d/400)) in millionths,
\* for d = -MaxRatingDiff .. MaxRatingDiff
WinProbTable ==
  <<
     999001, 998995, 998989, 998984, 998978, 998972, 998966, 998960, 998954, 998948, 998942, 998936,
     998930, 998923, 998917, 998911, 998905, 998898, 998892, 998886, 998879, 998873, 998866, 998860,
     998853, 998847, 998840, 998833, 998826, 998820, 998813, 998806, 998799, 998792, 998785, 998778,
     998771, 998764, 998757, 998750, 998743, 998735, 998728, 998721, 998713, 998706, 998699, 998691,
     998683, 998676, 998668, 998661, 998653, 998645, 998637, 998629, 998622, 998614, 998606, 998598,
     998589, 998581, 998573, 998565, 998557, 998548, 998540, 998532, 998523, 998515, 998506, 998497,
     998489, 998480, 998471, 998462, 998454, 998445, 998436, 998427, 998418, 998408, 998399, 998390,
     998381, 998371, 998362, 998353, 998343, 998334, 998324, 998314, 998305, 998295, 998285, 998275,
     998265, 998255, 998245, 998235, 998225, 998215, 998204, 998194, 998184, 998173, 998163, 998152,
     998141, 998131, 998120, 998109, 998098, 998087, 998076, 998065, 998054, 998043, 998031, 998020,
     998009, 997997, 997986, 997974, 997962, 997951, 997939, 997927, 997915, 997903, 997891, 997879,
     997867, 997854, 997842, 997830, 997817, 997804, 997792, 997779, 997766, 997753, 997740, 997727,
     997714, 997701, 997688, 997675, 997661, 997648, 997634, 997621, 997607, 997593, 997579, 997565,
     997551, 997537, 997523, 997509, 997494, 997480, 997465, 997451, 997436, 997421, 997407, 997392,
     997377, 997362, 997346, 997331, 997316, 997300, 997285, 997269, 997253, 997238, 997222, 997206,
     997190, 997173, 997157, 997141, 997124, 997108, 997091, 997074, 997057, 997041, 997024, 997006,
     996989, 996972, 996954, 996937, 996919, 996901, 996884, 996866, 996848, 996830, 996811, 996793,
     996775, 996756, 996737, 996718, 996700, 996681, 996662, 996642, 996623, 996604, 996584, 996564,
     996545, 996525, 996505, 996485, 996464, 996444, 996424, 996403, 996382, 996362, 996341, 996320,
     996298, 996277, 996256, 996234, 996213, 996191, 996169, 996147, 996125, 996102, 996080, 996057,
     996035, 996012, 995989, 995966, 995943, 995919, 995896, 995872, 995849, 995825, 995801, 995777,
     995752, 995728, 995703, 995679, 995654, 995629, 995604, 995578, 995553, 995527, 995502, 995476,
     995450, 995424, 995397, 995371, 995344, 995318, 995291, 995264, 995236, 995209, 995182, 995154,
     995126, 995098, 995070, 995042, 995013, 994984, 994956, 994927, 994898, 994868, 994839, 994809,
     994779, 994749, 994719, 994689, 994658, 994628, 994597, 994566, 994535, 994503, 994472, 994440,
     994408, 994376, 994344, 994311, 994279, 994246, 994213, 994179, 994146, 994112, 994079, 994045,
     994010, 993976, 993942, 993907, 993872, 993837, 993801, 993766, 993730, 993694, 993658, 993621,
     993585, 993548, 993511, 993474, 993436, 993399, 993361, 993323, 993285, 993246, 993207, 993168,
     993129, 993090, 993050, 993010, 992970, 992930, 992889, 992849, 992808, 992767, 992725, 992683,
     992641, 992599, 992557, 992514, 992471, 992428, 992385, 992341, 992297, 992253, 992209, 992164,
     992119, 992074, 992029, 991983, 991937, 991891, 991845, 991798, 991751, 991704, 991656, 991608,
     991560, 991512, 991464, 991415, 991366, 991316, 991266, 991216, 991166, 991116, 991065, 991014,
     990962, 990911, 990859, 990806, 990754, 990701, 990648, 990594, 990540, 990486, 990432, 990377,
     990322, 990267, 990211, 990155, 990099, 990042, 989986, 989928, 989871, 989813, 989755, 989696,
     989637, 989578, 989518, 989459, 989398, 989338, 989277, 989216, 989154, 989092, 989030, 988967,
     988904, 988841, 988777, 988713, 988649, 988584, 988519, 988453, 988387, 988321, 988255, 988188,
     988120, 988052, 987984, 987916, 987847, 987778, 987708, 987638, 987567, 987496, 987425, 987353,
     987281, 987209, 987136, 987063, 986989, 986915, 986840, 986765, 986690, 986614, 986538, 986461,
     986384, 986307, 986229, 986150, 986071, 985992, 985912, 985832, 985752, 985670, 985589, 985507,
     985425, 985342, 985258, 985174, 985090, 985005, 984920, 984834, 984748, 984661, 984574, 984487,
     984398, 984310, 984221, 984131, 984041, 983950, 983859, 983767, 983675, 983582, 983489, 983395,
     983301, 983206, 983111, 983015, 982919, 982822, 982724, 982626, 982528, 982429, 982329, 982229,
     982128, 982027, 981925, 981823, 981720, 981616, 981512, 981407, 981302, 981196, 981089, 980982,
     980874, 980766, 980657, 980548, 980438, 980327, 980216, 980104, 979991, 979878, 979764, 979650,
     979535, 979419, 979303, 979186, 979068, 978950, 978831, 978711, 978591, 978470, 978348, 978226,
     978103, 977979, 977855, 977730, 977604, 977478, 977351, 977223, 977095, 976965, 976836, 976705,
     976574, 976442, 976309, 976175, 976041, 975906, 975770, 975634, 975497, 975359, 975220, 975080,
     974940, 974799, 974657, 974515, 974371, 974227, 974082, 973937, 973790, 973643, 973495, 973346,
     973196, 973045, 972894, 972742, 972589, 972435, 972280, 972125, 971968, 971811, 971653, 971494,
     971334, 971173, 971012, 970849, 970686, 970522, 970356, 970190, 970023, 969856, 969687, 969517,
     969347, 969175, 969003, 968829, 968655, 968480, 968303, 968126, 967948, 967769, 967589, 967408,
     967226, 967043, 966859, 966674, 966488, 966301, 966113, 965924, 965734, 965543, 965351, 965158,
     964964, 964769, 964573, 964376, 964177, 963978, 963778, 963576, 963374, 963170, 962965, 962759,
     962552, 962344, 962135, 961925, 961713, 961501, 961287, 961073, 960857, 960640, 960421, 960202,
     959981, 959760, 959537, 959313, 959087, 958861, 958633, 958404, 958174, 957943, 957710, 957477,
     957242, 957005, 956768, 956529, 956289, 956048, 955805, 955562, 955316, 955070, 954822, 954573,
     954323, 954072, 953819, 953565, 953309, 953052, 952794, 952534, 952273, 952011, 951747, 951482,
     951216, 950948, 950679, 950408, 950136, 949863, 949588, 949312, 949034, 948755, 948474, 948192,
     947909, 947624, 947337, 947049, 946760, 946469, 946176, 945883, 945587, 945290, 944992, 944692,
     944390, 944087, 943782, 943476, 943168, 942859, 942548, 942236, 941922, 941606, 941289, 940970,
     940649, 940327, 940003, 939678, 939350, 939022, 938691, 938359, 938025, 937690, 937353, 937014,
     936673, 936331, 935987, 935641, 935293, 934944, 934593, 934240, 933886, 933530, 933172, 932812,
     932450, 932086, 931721, 931354, 930985, 930614, 930242, 929867, 929491, 929113, 928733, 928351,
     927967, 927581, 927193, 926804, 926412, 926019, 925624, 925226, 924827, 924426, 924023, 923618,
     923211, 922802, 922391, 921977, 921562, 921145, 920726, 920305, 919882, 919456, 919029, 918600,
     918168, 917735, 917299, 916861, 916421, 915979, 915535, 915089, 914641, 914190, 913738, 913283,
     912826, 912367, 911905, 911442, 910976, 910508, 910038, 909566, 909091, 908614, 908135, 907654,
     907170, 906684, 906196, 905705, 905213, 904718, 904220, 903720, 903218, 902714, 902207, 901698,
     901187, 900673, 900157, 899638, 899117, 898594, 898068, 897540, 897010, 896477, 895941, 895403,
     894863, 894320, 893775, 893227, 892677, 892124, 891569, 891011, 890451, 889888, 889323, 888755,
     888184, 887611, 887036, 886458, 885877, 885294, 884708, 884119, 883528, 882935, 882338, 881739,
     881138, 880534, 879927, 879317, 878705, 878090, 877473, 876852, 876229, 875604, 874975, 874344,
     873710, 873074, 872435, 871793, 871148, 870500, 869850, 869197, 868541, 867882, 867221, 866557,
     865890, 865220, 864547, 863871, 863193, 862512, 861828, 861141, 860451, 859759, 859063, 858365,
     857663, 856959, 856252, 855542, 854829, 854113, 853395, 852673, 851948, 851221, 850490, 849757,
     849020, 848281, 847539, 846793, 846045, 845294, 844540, 843782, 843022, 842259, 841492, 840723,
     839951, 839175, 838397, 837615, 836831, 836043, 835253, 834459, 833662, 832863, 832060, 831254,
     830445, 829633, 828818, 827999, 827178, 826354, 825526, 824695, 823862, 823025, 822185, 821341,
     820495, 819646, 818793, 817938, 817079, 816217, 815352, 814484, 813612, 812738, 811860, 810979,
     810095, 809208, 808318, 807424, 806528, 805628, 804725, 803819, 802909, 801997, 801081, 800162,
     799240, 798315, 797386, 796455, 795520, 794582, 793641, 792696, 791749, 790798, 789844, 788887,
     787927, 786963, 785997, 785027, 784054, 783077, 782098, 781115, 780130, 779141, 778148, 777153,
     776155, 775153, 774148, 773140, 772129, 771114, 770097, 769076, 768052, 767025, 765995, 764961,
     763925, 762885, 761842, 760796, 759747, 758695, 757639, 756581, 755519, 754454, 753386, 752315,
     751241, 750163, 749083, 748000, 746913, 745823, 744730, 743635, 742536, 741434, 740328, 739220,
     738109, 736995, 735877, 734757, 733634, 732507, 731378, 730245, 729110, 727972, 726830, 725686,
     724538, 723388, 722235, 721078, 719919, 718757, 717592, 716424, 715253, 714079, 712902, 711723,
     710540, 709355, 708166, 706975, 705781, 704585, 703385, 702183, 700977, 699769, 698559, 697345,
     696129, 694910, 693688, 692463, 691236, 690006, 688774, 687538, 686300, 685060, 683816, 682570,
     681322, 680071, 678817, 677561, 676302, 675040, 673776, 672510, 671241, 669969, 668695, 667418,
     666139, 664858, 663574, 662288, 660999, 659708, 658415, 657119, 655821, 654520, 653217, 651912,
     650605, 649295, 647983, 646669, 645352, 644034, 642713, 641390, 640065, 638738, 637408, 636077,
     634743, 633408, 632070, 630730, 629389, 628045, 626699, 625351, 624002, 622650, 621297, 619941,
     618584, 617225, 615864, 614501, 613137, 611771, 610402, 609033, 607661, 606288, 604913, 603536,
     602158, 600778, 599397, 598014, 596629, 595243, 593855, 592466, 591076, 589684, 588290, 586895,
     585499, 584101, 582702, 581301, 579900, 578497, 577092, 575687, 574280, 572872, 571463, 570053,
     568641, 567229, 565815, 564400, 562985, 561568, 560150, 558731, 557312, 555891, 554469, 553047,
     551624, 550199, 548774, 547349, 545922, 544495, 543066, 541638, 540208, 538778, 537347, 535916,
     534484, 533051, 531618, 530185, 528751, 527316, 525881, 524445, 523010, 521573, 520137, 518700,
     517263, 515825, 514387, 512949, 511511, 510072, 508634, 507195, 505756, 504317, 502878, 501439,
     500000, 498561, 497122, 495683, 494244, 492805, 491366, 489928, 488489, 487051, 485613, 484175,
     482737, 481300, 479863, 478427, 476990, 475555, 474119, 472684, 471249, 469815, 468382, 466949,
     465516, 464084, 462653, 461222, 459792, 458362, 456934, 455505, 454078, 452651, 451226, 449801,
     448376, 446953, 445531, 444109, 442688, 441269, 439850, 438432, 437015, 435600, 434185, 432771,
     431359, 429947, 428537, 427128, 425720, 424313, 422908, 421503, 420100, 418699, 417298, 415899,
     414501, 413105, 411710, 410316, 408924, 407534, 406145, 404757, 403371, 401986, 400603, 399222,
     397842, 396464, 395087, 393712, 392339, 390967, 389598, 388229, 386863, 385499, 384136, 382775,
     381416, 380059, 378703, 377350, 375998, 374649, 373301, 371955, 370611, 369270, 367930, 366592,
     365257, 363923, 362592, 361262, 359935, 358610, 357287, 355966, 354648, 353331, 352017, 350705,
     349395, 348088, 346783, 345480, 344179, 342881, 341585, 340292, 339001, 337712, 336426, 335142,
     333861, 332582, 331305, 330031, 328759, 327490, 326224, 324960, 323698, 322439, 321183, 319929,
     318678, 317430, 316184, 314940, 313700, 312462, 311226, 309994, 308764, 307537, 306312, 305090,
     303871, 302655, 301441, 300231, 299023, 297817, 296615, 295415, 294219, 293025, 291834, 290645,
     289460, 288277, 287098, 285921, 284747, 283576, 282408, 281243, 280081, 278922, 277765, 276612,
     275462, 274314, 273170, 272028, 270890, 269755, 268622, 267493, 266366, 265243, 264123, 263005,
     261891, 260780, 259672, 258566, 257464, 256365, 255270, 254177, 253087, 252000, 250917, 249837,
     248759, 247685, 246614, 245546, 244481, 243419, 242361, 241305, 240253, 239204, 238158, 237115,
     236075, 235039, 234005, 232975, 231948, 230924, 229903, 228886, 227871, 226860, 225852, 224847,
     223845, 222847, 221852, 220859, 219870, 218885, 217902, 216923, 215946, 214973, 214003, 213037,
     212073, 211113, 210156, 209202, 208251, 207304, 206359, 205418, 204480, 203545, 202614, 201685,
     200760, 199838, 198919, 198003, 197091, 196181, 195275, 194372, 193472, 192576, 191682, 190792,
     189905, 189021, 188140, 187262, 186388, 185516, 184648, 183783, 182921, 182062, 181207, 180354,
     179505, 178659, 177815, 176975, 176138, 175305, 174474, 173646, 172822, 172001, 171182, 170367,
     169555, 168746, 167940, 167137, 166338, 165541, 164747, 163957, 163169, 162385, 161603, 160825,
     160049, 159277, 158508, 157741, 156978, 156218, 155460, 154706, 153955, 153207, 152461, 151719,
     150980, 150243, 149510, 148779, 148052, 147327, 146605, 145887, 145171, 144458, 143748, 143041,
     142337, 141635, 140937, 140241, 139549, 138859, 138172, 137488, 136807, 136129, 135453, 134780,
     134110, 133443, 132779, 132118, 131459, 130803, 130150, 129500, 128852, 128207, 127565, 126926,
     126290, 125656, 125025, 124396, 123771, 123148, 122527, 121910, 121295, 120683, 120073, 119466,
     118862, 118261, 117662, 117065, 116472, 115881, 115292, 114706, 114123, 113542, 112964, 112389,
     111816, 111245, 110677, 110112, 109549, 108989, 108431, 107876, 107323, 106773, 106225, 105680,
     105137, 104597, 104059, 103523, 102990, 102460, 101932, 101406, 100883, 100362, 99843, 99327,
     98813, 98302, 97793, 97286, 96782, 96280, 95780, 95282, 94787, 94295, 93804, 93316,
     92830, 92346, 91865, 91386, 90909, 90434, 89962, 89492, 89024, 88558, 88095, 87633,
     87174, 86717, 86262, 85810, 85359, 84911, 84465, 84021, 83579, 83139, 82701, 82265,
     81832, 81400, 80971, 80544, 80118, 79695, 79274, 78855, 78438, 78023, 77609, 77198,
     76789, 76382, 75977, 75574, 75173, 74774, 74376, 73981, 73588, 73196, 72807, 72419,
     72033, 71649, 71267, 70887, 70509, 70133, 69758, 69386, 69015, 68646, 68279, 67914,
     67550, 67188, 66828, 66470, 66114, 65760, 65407, 65056, 64707, 64359, 64013, 63669,
     63327, 62986, 62647, 62310, 61975, 61641, 61309, 60978, 60650, 60322, 59997, 59673,
     59351, 59030, 58711, 58394, 58078, 57764, 57452, 57141, 56832, 56524, 56218, 55913,
     55610, 55308, 55008, 54710, 54413, 54117, 53824, 53531, 53240, 52951, 52663, 52376,
     52091, 51808, 51526, 51245, 50966, 50688, 50412, 50137, 49864, 49592, 49321, 49052,
     48784, 48518, 48253, 47989, 47727, 47466, 47206, 46948, 46691, 46435, 46181, 45928,
     45677, 45427, 45178, 44930, 44684, 44438, 44195, 43952, 43711, 43471, 43232, 42995,
     42758, 42523, 42290, 42057, 41826, 41596, 41367, 41139, 40913, 40687, 40463, 40240,
     40019, 39798, 39579, 39360, 39143, 38927, 38713, 38499, 38287, 38075, 37865, 37656,
     37448, 37241, 37035, 36830, 36626, 36424, 36222, 36022, 35823, 35624, 35427, 35231,
     35036, 34842, 34649, 34457, 34266, 34076, 33887, 33699, 33512, 33326, 33141, 32957,
     32774, 32592, 32411, 32231, 32052, 31874, 31697, 31520, 31345, 31171, 30997, 30825,
     30653, 30483, 30313, 30144, 29977, 29810, 29644, 29478, 29314, 29151, 28988, 28827,
     28666, 28506, 28347, 28189, 28032, 27875, 27720, 27565, 27411, 27258, 27106, 26955,
     26804, 26654, 26505, 26357, 26210, 26063, 25918, 25773, 25629, 25485, 25343, 25201,
     25060, 24920, 24780, 24641, 24503, 24366, 24230, 24094, 23959, 23825, 23691, 23558,
     23426, 23295, 23164, 23035, 22905, 22777, 22649, 22522, 22396, 22270, 22145, 22021,
     21897, 21774, 21652, 21530, 21409, 21289, 21169, 21050, 20932, 20814, 20697, 20581,
     20465, 20350, 20236, 20122, 20009, 19896, 19784, 19673, 19562, 19452, 19343, 19234,
     19126, 19018, 18911, 18804, 18698, 18593, 18488, 18384, 18280, 18177, 18075, 17973,
     17872, 17771, 17671, 17571, 17472, 17374, 17276, 17178, 17081, 16985, 16889, 16794,
     16699, 16605, 16511, 16418, 16325, 16233, 16141, 16050, 15959, 15869, 15779, 15690,
     15602, 15513, 15426, 15339, 15252, 15166, 15080, 14995, 14910, 14826, 14742, 14658,
     14575, 14493, 14411, 14330, 14248, 14168, 14088, 14008, 13929, 13850, 13771, 13693,
     13616, 13539, 13462, 13386, 13310, 13235, 13160, 13085, 13011, 12937, 12864, 12791,
     12719, 12647, 12575, 12504, 12433, 12362, 12292, 12222, 12153, 12084, 12016, 11948,
     11880, 11812, 11745, 11679, 11613, 11547, 11481, 11416, 11351, 11287, 11223, 11159,
     11096, 11033, 10970, 10908, 10846, 10784, 10723, 10662, 10602, 10541, 10482, 10422,
     10363, 10304, 10245, 10187, 10129, 10072, 10014, 9958, 9901, 9845, 9789, 9733,
     9678, 9623, 9568, 9514, 9460, 9406, 9352, 9299, 9246, 9194, 9141, 9089,
     9038, 8986, 8935, 8884, 8834, 8784, 8734, 8684, 8634, 8585, 8536, 8488,
     8440, 8392, 8344, 8296, 8249, 8202, 8155, 8109, 8063, 8017, 7971, 7926,
     7881, 7836, 7791, 7747, 7703, 7659, 7615, 7572, 7529, 7486, 7443, 7401,
     7359, 7317, 7275, 7233, 7192, 7151, 7111, 7070, 7030, 6990, 6950, 6910,
     6871, 6832, 6793, 6754, 6715, 6677, 6639, 6601, 6564, 6526, 6489, 6452,
     6415, 6379, 6342, 6306, 6270, 6234, 6199, 6163, 6128, 6093, 6058, 6024,
     5990, 5955, 5921, 5888, 5854, 5821, 5787, 5754, 5721, 5689, 5656, 5624,
     5592, 5560, 5528, 5497, 5465, 5434, 5403, 5372, 5342, 5311, 5281, 5251,
     5221, 5191, 5161, 5132, 5102, 5073, 5044, 5016, 4987, 4958, 4930, 4902,
     4874, 4846, 4818, 4791, 4764, 4736, 4709, 4682, 4656, 4629, 4603, 4576,
     4550, 4524, 4498, 4473, 4447, 4422, 4396, 4371, 4346, 4321, 4297, 4272,
     4248, 4223, 4199, 4175, 4151, 4128, 4104, 4081, 4057, 4034, 4011, 3988,
     3965, 3943, 3920, 3898, 3875, 3853, 3831, 3809, 3787, 3766, 3744, 3723,
     3702, 3680, 3659, 3638, 3618, 3597, 3576, 3556, 3536, 3515, 3495, 3475,
     3455, 3436, 3416, 3396, 3377, 3358, 3338, 3319, 3300, 3282, 3263, 3244,
     3225, 3207, 3189, 3170, 3152, 3134, 3116, 3099, 3081, 3063, 3046, 3028,
     3011, 2994, 2976, 2959, 2943, 2926, 2909, 2892, 2876, 2859, 2843, 2827,
     2810, 2794, 2778, 2762, 2747, 2731, 2715, 2700, 2684, 2669, 2654, 2638,
     2623, 2608, 2593, 2579, 2564, 2549, 2535, 2520, 2506, 2491, 2477, 2463,
     2449, 2435, 2421, 2407, 2393, 2379, 2366, 2352, 2339, 2325, 2312, 2299,
     2286, 2273, 2260, 2247, 2234, 2221, 2208, 2196, 2183, 2170, 2158, 2146,
     2133, 2121, 2109, 2097, 2085, 2073, 2061, 2049, 2038, 2026, 2014, 2003,
     1991, 1980, 1969, 1957, 1946, 1935, 1924, 1913, 1902, 1891, 1880, 1869,
     1859, 1848, 1837, 1827, 1816, 1806, 1796, 1785, 1775, 1765, 1755, 1745,
     1735, 1725, 1715, 1705, 1695, 1686, 1676, 1666, 1657, 1647, 1638, 1629,
     1619, 1610, 1601, 1592, 1582, 1573, 1564, 1555, 1546, 1538, 1529, 1520,
     1511, 1503, 1494, 1485, 1477, 1468, 1460, 1452, 1443, 1435, 1427, 1419,
     1411, 1402, 1394, 1386, 1378, 1371, 1363, 1355, 1347, 1339, 1332, 1324,
     1317, 1309, 1301, 1294, 1287, 1279, 1272, 1265, 1257, 1250, 1243, 1236,
     1229, 1222, 1215, 1208, 1201, 1194, 1187, 1180, 1174, 1167, 1160, 1153,
     1147, 1140, 1134, 1127, 1121, 1114, 1108, 1102, 1095, 1089, 1083, 1077,
     1070, 1064, 1058, 1052, 1046, 1040, 1034, 1028, 1022, 1016, 1011, 1005,
     999
  >>

\* 1.0 / (1.0 + 10_f64.powf(rating_diff / 400.0)), in millionths
WinProb(rating_diff) == WinProbTable[rating_diff + MaxRatingDiff + 1]

CpuElo(position) == Max(MIN_CPU_ELO, MAX_CPU_ELO - ((position - 1) * CPU_ELO_DECREASE))

\* a field that gives every position 1..24 a CPU entry, taken or not
create_full_field_all_cpu(human_results) ==
  human_results \o
  [i \in 1..TOTAL_RACE_SIZE |->
     [player_id |-> NilId, position |-> i, current_elo |-> CpuElo(i)]]

\* the humans, then a CPU entry for every position 1..24 no human holds
create_full_field(human_results) ==
  LET human_positions == {human_results[i].position : i \in 1..Len(human_results)}
      free == SortedSeq((1..TOTAL_RACE_SIZE) \ human_positions)
  IN  human_results \o
      [i \in 1..Len(free) |->
         [player_id |-> NilId, position |-> free[i], current_elo |-> CpuElo(free[i])]]

\* the mean win probability against every other entry, as (sum, count)
calculate_expected_score(player, all_results) ==
  LET opponent_count == IF Len(all_results) = 0 THEN 0 ELSE Len(all_results) - 1
      others == SelectSeq(all_results, LAMBDA o : o.player_id # player.player_id)
      probs == [i \in 1..Len(others) |-> WinProb(others[i].current_elo - player.current_elo)]
  IN  IF opponent_count = 0
      THEN [sum |-> ScoreScale \div 2, count |-> 1]
      ELSE [sum |-> SumSeq(probs), count |-> opponent_count]

\* an actual score that does not tell the first two places apart
position_to_score_podium(position) ==
  IF position <= 2 THEN TOTAL_RACE_SIZE - 1 ELSE TOTAL_RACE_SIZE - position

\* numerator of the actual score; the denominator is TOTAL_RACE_SIZE - 1
position_to_score(position) == TOTAL_RACE_SIZE - position

\* (K_FACTOR * (actual_score - expected_score)).round()
EloDelta(player, full_field) ==
  LET e == calculate_expected_score(player, full_field)
      num == position_to_score(player.position) * e.count * ScoreScale
             - (TOTAL_RACE_SIZE - 1) * e.sum
      den == ((TOTAL_RACE_SIZE - 1) * e.count * ScoreScale) \div K_FACTOR
  IN  RoundDiv(num, den)

calculate_elo_changes(results) ==
  LET full_field == create_full_field(results)
  IN  [i \in 1..Len(results) |->
         LET elo_change == EloDelta(results[i], full_field)
         IN  [player_id |-> results[i].player_id,
              elo_change |-> elo_change,
              new_elo |-> results[i].current_elo + elo_change]]

(***************************************************************************)
(* services/scoring.rs, services/teammate_elo.rs                           *)
(***************************************************************************)
\* position_to_points with one point fewer per place
position_to_points_linear(position) ==
  IF position \in 1..12 THEN 16 - position ELSE 0

position_to_points(position) ==
  CASE position = 1 -> 15
    [] position = 2 -> 12
    [] position = 3 -> 10
    [] position = 4 -> 9
    [] position = 5 -> 8
    [] position = 6 -> 7
    [] position = 7 -> 6
    [] position = 8 -> 5
    [] position = 9 -> 4
    [] position = 10 -> 3
    [] position = 11 -> 2
    [] position = 12 -> 1
    [] OTHER -> 0

\* (tournament_elo_change as f64 * 0.2).round(): a fifth, ties away from zero
\* the 10% the module documentation speaks of
ContributionAmount_tenth(tournament_elo_change) == RoundDiv(tournament_elo_change, 10)

ContributionAmount(tournament_elo_change) == RoundDiv(2 * tournament_elo_change, 10)

\* results: sequence of [player_id, position]; player_to_team: function on the
\* match's players; team_to_players: function team -> set of players;
\* tournament_elo_changes: function on the racers.  Returns the contribution
\* records (one per push, as a sequence) and the summed adjustment of every
\* beneficiary.
\* a calculator that pays only the teammates who raced in the round
calculate_teammate_contributions_racers_only(results, player_to_team, team_to_players, tournament_elo_changes) ==
  LET racers == {results[i].player_id : i \in 1..Len(results)}
      RECURSIVE Contribs(_)
      Contribs(i) ==
        IF i > Len(results) THEN <<>>
        ELSE LET src == results[i].player_id
                 mates == SortedNames((team_to_players[player_to_team[src]] \cap racers) \ {src})
             IN  [j \in 1..Len(mates) |->
                    [source_player_id |-> src,
                     beneficiary_player_id |-> mates[j],
                     source_tournament_elo_change |-> tournament_elo_changes[src],
                     contribution_amount |-> RoundDiv(2 * tournament_elo_changes[src], 10)]]
                 \o Contribs(i + 1)
      contributions == Contribs(1)
      beneficiaries == {contributions[i].beneficiary_player_id : i \in 1..Len(contributions)}
      amounts(b) == [i \in 1..Len(contributions) |->
                       IF contributions[i].beneficiary_player_id = b
                       THEN contributions[i].contribution_amount ELSE 0]
  IN  [contributions |-> contributions,
       adjustments |-> [b \in beneficiaries |-> SumSeq(amounts(b))]]

calculate_teammate_contributions(results, player_to_team, team_to_players, tournament_elo_changes) ==
  LET RECURSIVE Contribs(_)
      Contribs(i) ==
        IF i > Len(results) THEN <<>>
        ELSE LET src == results[i].player_id
                 here ==
                   IF /\ src \in DOMAIN player_to_team
                      /\ player_to_team[src] \in DOMAIN team_to_players
                      /\ src \in DOMAIN tournament_elo_changes
                   THEN LET mates == SortedNames(team_to_players[player_to_team[src]] \ {src})
                        IN  [j \in 1..Len(mates) |->
                               [source_player_id |-> src,
                                beneficiary_player_id |-> mates[j],
                                source_tournament_elo_change |-> tournament_elo_changes[src],
                                contribution_amount |->
                                  ContributionAmount(tournament_elo_changes[src])]]
                   ELSE <<>>
             IN  here \o Contribs(i + 1)
      contributions == Contribs(1)
      beneficiaries == {contributions[i].beneficiary_player_id : i \in 1..Len(contributions)}
      amounts(b) == [i \in 1..Len(contributions) |->
                       IF contributions[i].beneficiary_player_id = b
                       THEN contributions[i].contribution_amount ELSE 0]
  IN  [contributions |-> contributions,
       adjustments |-> [b \in beneficiaries |-> SumSeq(amounts(b))]]

(***************************************************************************)
(* services/result_recording.rs: input validation                          *)
(***************************************************************************)
\* validate_results without the duplicate check
validate_results_range_only(results) ==
  /\ Len(results) # 0
  /\ \A i \in 1..Len(results) : results[i].position \in 1..24

validate_results(results) ==
  /\ Len(results) # 0
  /\ \A i \in 1..Len(results) : results[i].position \in 1..24
  /\ Cardinality({results[i].position : i \in 1..Len(results)}) = Len(results)

\* validate_players_in_round as a containment test
validate_players_subset(submitted_players, round_players) ==
  Range(submitted_players) \subseteq Range(round_players)

validate_players_in_round(submitted_players, round_players) ==
  Range(submitted_players) = Range(round_players)

\* NoRow when a player is missing from the map (AppError::NotFound)
create_player_results(results, player_elos) ==
  IF \E i \in 1..Len(results) : results[i].player_id \notin DOMAIN player_elos
  THEN NoRow
  ELSE Row([i \in 1..Len(results) |->
          [player_id |-> results[i].player_id,
           position |-> results[i].position,
           current_elo |-> player_elos[results[i].player_id]]])

(***************************************************************************)
(* services/team_allocation.rs                                             *)
(*   a player is [id, elo_rating]; a team is [team_num, players, total_elo]*)
(***************************************************************************)
\* stable sort of the sequence s by descending key (slice::sort_by is stable)
SortDesc(s, key(_)) ==
  LET \* x goes before the first element whose key is not larger than x's
      RECURSIVE Ins(_, _)
      Ins(x, t) == IF t = <<>> THEN <<x>>
                   ELSE IF key(Head(t)) > key(x)
                        THEN <<Head(t)>> \o Ins(x, Tail(t))
                        ELSE <<x>> \o t
      RECURSIVE Sort(_)
      Sort(t) == IF t = <<>> THEN <<>> ELSE Ins(Head(t), Sort(Tail(t)))
  IN  Sort(s)

calculate_team_sizes_tail(num_players, num_teams) ==
  LET base_size == num_players \div num_teams
      remainder == num_players % num_teams
  IN  [team_idx \in 1..num_teams |->
         IF team_idx > num_teams - remainder THEN base_size + 1 ELSE base_size]

calculate_team_sizes(num_players, num_teams) ==
  LET base_size == num_players \div num_teams
      remainder == num_players % num_teams
  IN  [team_idx \in 1..num_teams |->
         IF team_idx - 1 < remainder THEN base_size + 1 ELSE base_size]

\* first index of idxs (ascending) with the least key: Iterator::min_by_key
FirstMinBy(idxs, key(_), default) ==
  IF idxs = {} THEN default
  ELSE CHOOSE i \in idxs :
         \A j \in idxs : key(i) < key(j) \/ (key(i) = key(j) /\ i <= j)

\* last index of idxs with the greatest key: Iterator::max_by_key
LastMaxBy(idxs, key(_)) ==
  CHOOSE i \in idxs :
    \A j \in idxs : key(i) > key(j) \/ (key(i) = key(j) /\ i >= j)

allocate_teams_in_order(players, players_per_race, elo_ratings) ==
  LET get_elo(player) == IF player.id \in DOMAIN elo_ratings
                         THEN elo_ratings[player.id] ELSE player.elo_rating
      sorted_players == SortDesc(players, get_elo)
      num_players == Len(players)
      num_teams == Min(players_per_race, num_players)
      team_sizes == calculate_team_sizes(num_players, num_teams)
      start(team_idx) == SumSeq([i \in 1..(team_idx - 1) |-> team_sizes[i]])
  IN  [team_idx \in 1..num_teams |->
         LET team_players == [i \in 1..team_sizes[team_idx] |->
                                sorted_players[start(team_idx) + i]]
         IN  [team_num |-> team_idx,
              players |-> team_players,
              total_elo |-> SumSeq([i \in 1..Len(team_players) |->
                                      get_elo(team_players[i])])]]

allocate_teams(players, players_per_race, elo_ratings) ==
  LET get_elo(player) == IF player.id \in DOMAIN elo_ratings
                         THEN elo_ratings[player.id] ELSE player.elo_rating
      sorted_players == SortDesc(players, get_elo)
      num_players == Len(players)
      num_teams == Min(players_per_race, num_players)
      team_sizes == calculate_team_sizes(num_players, num_teams)
      initial_teams == [team_idx \in 1..num_teams |->
                          [team_num |-> team_idx, players |-> <<>>, total_elo |-> 0]]
      RECURSIVE Fold(_, _)
      Fold(teams, rest) ==
        IF rest = <<>> THEN teams
        ELSE LET player == Head(rest)
                 open == {idx \in 1..num_teams : Len(teams[idx].players) < team_sizes[idx]}
                 team_idx == FirstMinBy(open, LAMBDA idx : teams[idx].total_elo, 1)
             IN  Fold([idx \in 1..num_teams |->
                         IF idx = team_idx
                         THEN [team_num |-> teams[idx].team_num,
                               players |-> Append(teams[idx].players, player),
                               total_elo |-> teams[idx].total_elo + get_elo(player)]
                         ELSE teams[idx]],
                      Tail(rest))
  IN  Fold(initial_teams, sorted_players)

(***************************************************************************)
(* services/race_allocation.rs                                             *)
(*   position indices are 1-based here (0-based in the code)               *)
(***************************************************************************)
allocate_races_zero_based(teams, num_races) ==
  [race_num \in 1..num_races |->
     [race_number |-> race_num - 1,
      player_ids |-> [t \in 1..Len(teams) |->
                        teams[t].players[((race_num - 1) % Len(teams[t].players)) + 1].id]]]

allocate_races_top_seed(teams, num_races) ==
  [race_num \in 1..num_races |->
     [race_number |-> race_num,
      player_ids |-> [t \in 1..Len(teams) |-> teams[t].players[1].id]]]

allocate_races(teams, num_races) ==
  LET team_state == [t \in 1..Len(teams) |->
                       SortDesc(teams[t].players, LAMBDA p : p.elo_rating)]
      primary_team_index == LastMaxBy(1..Len(teams), LAMBDA t : Len(team_state[t]))
      primary_team_size == Len(team_state[primary_team_index])
      Schedule(team_idx) ==
        LET team_players == team_state[team_idx]
            team_size == Len(team_players)
            uses_per_position == num_races \div team_size
            extra_uses == num_races % team_size
            \* equal target uses: follow the primary team's rotation proportionally
            RECURSIVE Equal(_, _)
            Equal(race_idx, used_counts) ==
              IF race_idx >= num_races THEN <<>>
              ELSE LET primary_pos == race_idx % primary_team_size
                       ideal_pos == ((primary_pos * team_size) \div primary_team_size) + 1
                       chosen_pos ==
                         IF used_counts[ideal_pos] < uses_per_position
                         THEN ideal_pos
                         ELSE FirstMinBy({p \in 1..team_size :
                                            used_counts[p] < uses_per_position},
                                         LAMBDA p : used_counts[p], 1)
                   IN  <<chosen_pos>> \o
                       Equal(race_idx + 1,
                             [used_counts EXCEPT ![chosen_pos] = @ + 1])
            target_uses == [i \in 1..team_size |->
                              uses_per_position + IF i - 1 < extra_uses THEN 1 ELSE 0]
            \* unequal target uses: rating proximity with a usage penalty
            RECURSIVE Weighted(_, _)
            Weighted(race_idx, used_counts) ==
              IF race_idx >= num_races THEN <<>>
              ELSE LET primary_position_idx == (race_idx % primary_team_size) + 1
                       primary_elo ==
                         team_state[primary_team_index][primary_position_idx].elo_rating
                       best_position ==
                         FirstMinBy({p \in 1..team_size : used_counts[p] < target_uses[p]},
                                    LAMBDA p : Abs(team_players[p].elo_rating - primary_elo)
                                               + used_counts[p] * 5000,
                                    1)
                   IN  <<best_position>> \o
                       Weighted(race_idx + 1,
                                [used_counts EXCEPT ![best_position] = @ + 1])
            zero == [i \in 1..team_size |-> 0]
        IN  IF team_idx = primary_team_index
            THEN [i \in 1..num_races |-> ((i - 1) % team_size) + 1]
            ELSE IF extra_uses = 0 THEN Equal(0, zero) ELSE Weighted(0, zero)
      team_position_schedules == [t \in 1..Len(teams) |-> Schedule(t)]
  IN  [race_num \in 1..num_races |->
         [race_number |-> race_num,
          player_ids |-> [t \in 1..Len(teams) |->
                            team_state[t][team_position_schedules[t][race_num]].id]]]

(***************************************************************************)
(* services/match_service.rs: input validation                             *)
(***************************************************************************)
validate_create_match_inputs_divisible(player_uuids, num_races, players_per_race) ==
  LET num_players == Len(player_uuids)
      total_slots == num_races * players_per_race
  IN  /\ Len(player_uuids) # 0
      /\ num_races > 0
      /\ players_per_race > 0
      /\ players_per_race <= num_players
      /\ total_slots % num_players = 0

validate_create_match_inputs(player_uuids, num_races, players_per_race) ==
  LET num_players == Len(player_uuids)
      total_slots == num_races * players_per_race
  IN  /\ Len(player_uuids) # 0
      /\ num_races > 0
      /\ players_per_race > 0
      /\ players_per_race <= num_players
      /\ total_slots >= num_players

(***************************************************************************)
(* The database                                                            *)
(*   db is the committed state: one function per table, from the key of a  *)
(*   row to a cell.  A transaction of process p holds row locks locks[p]   *)
(*   (a set of <<table, key>>) and its uncommitted versions of exactly     *)
(*   those rows in priv[p].  Under READ COMMITTED every statement of p     *)
(*   reads View(p): the committed rows, overridden by p's own writes.  A   *)
(*   statement that writes a row locked by another transaction waits.      *)
(***************************************************************************)
STARTING_TOURNAMENT_ELO == 1200

Procs == {"p1", "p2"}

MatchIds == {"m1"}

TournamentId == "t1"

\* the group that owns the players, the tournament and its matches
GroupId == "g1"

\* the track ids a catalog may hold
TrackIds == {"k1", "k2", "k3"}

\* the track catalog (tracks table, filled by a migration)
TrackCatalog == {"k1", "k2"}

\* largest round count a create_match request asks for
MaxRounds == 2

\* longest result list of a record_round_results request
MaxResults == 2

RoundNums == 1..MaxRounds

TeamNums == 1..Len(PlayerOrder)

\* positions a request may carry: two valid ones and both out-of-range sides
InputPositions == {0, 1, 2, 25}

\* players-per-race values a create_match request may carry
InputPlayersPerRace == 0..2

\* player lists a create_match request may carry
InputPlayerLists ==
  {<<>>, <<"a">>, <<"a", "b">>, <<"b", "a">>, <<"a", "b", "c">>, <<"a", "a">>}

\* the rosters the two concurrent clients play with
Rosters == {<<"a", "b">>, <<"a", "b", "c">>}

\* the rosters of the tournament that is closed
TournamentRosters == {<<"a", "b", "c">>}

\* the ratings of the players before the first match
InitialElos ==
  {[p \in Players |-> CASE p = "a" -> 1300 [] p = "b" -> 1200 [] OTHER -> 1100]}

Tables == {"players", "pts", "matches", "rounds", "round_players", "teams",
           "team_scores", "race_scores", "contributions", "pms",
           "tournaments", "tournament_stats", "tracks"}

\* the database without rows, with room for the matches M of rounds R each
EmptyDbOf(M, R) ==
  [players       |-> [p \in Players |-> NoRow],
   pts           |-> [p \in Players |-> NoRow],
   matches       |-> [m \in M |-> NoRow],
   rounds        |-> [k \in M \X R |-> NoRow],
   round_players |-> [k \in M \X R |-> NoRow],
   teams         |-> [m \in M |-> NoRow],
   team_scores   |-> [k \in M \X TeamNums |-> NoRow],
   race_scores   |-> [k \in M \X R \X Players |-> NoRow],
   contributions |-> [k \in M \X R \X Players \X Players |-> NoRow],
   pms           |-> [k \in M \X Players |-> NoRow],
   tournaments   |-> [t \in {TournamentId} |-> NoRow],
   tournament_stats |-> [k \in {TournamentId} \X Procs |-> NoRow],
   tracks        |-> [k \in TrackIds |-> NoRow]]

EmptyDb == EmptyDbOf(MatchIds, RoundNums)

VARIABLES db, priv, locks, proc, ghost

vars == <<db, priv, locks, proc, ghost>>

\* the record with the field f(n) for every table n
TableRecord(f(_)) ==
  [players       |-> f("players"),
   pts           |-> f("pts"),
   matches       |-> f("matches"),
   rounds        |-> f("rounds"),
   round_players |-> f("round_players"),
   teams         |-> f("teams"),
   team_scores   |-> f("team_scores"),
   race_scores   |-> f("race_scores"),
   contributions |-> f("contributions"),
   pms           |-> f("pms"),
   tournaments   |-> f("tournaments"),
   tournament_stats |-> f("tournament_stats"),
   tracks        |-> f("tracks")]

\* the rows of v that L locks, every other cell blank
Mask(v, L) ==
  TableRecord(LAMBDA n : [k \in DOMAIN v[n] |-> IF k \in L[n] THEN v[n][k] ELSE NoRow])

\* what a statement of process p reads
View(p) ==
  TableRecord(LAMBDA n :
     [k \in DOMAIN db[n] |-> IF k \in locks[p][n] THEN priv[p][n][k] ELSE db[n][k]])

\* a set of row locks: for every table, the keys of the locked rows
NoLocks == TableRecord(LAMBDA n : {})

Rows(n, K) == TableRecord(LAMBDA t : IF t = n THEN K ELSE {})

LockUnion(A, B) == TableRecord(LAMBDA n : A[n] \cup B[n])

Overlap(A, B) == \E n \in Tables : A[n] \cap B[n] # {}

\* no other transaction holds a lock on a row of needs
Free(p, needs) == \A q \in Procs \ {p} : ~Overlap(needs, locks[q])

(***************************************************************************)
(* The statements of record_round_results, as functions of the database    *)
(* value d the statement reads (the committed state or a transaction's     *)
(* view).  results is a sequence of [player_id, position]; changes are     *)
(* sequences of [player_id, elo_change, new_elo].                          *)
(***************************************************************************)
ResultPlayers(results) == {results[i].player_id : i \in 1..Len(results)}

\* HashMap built from a sequence of EloChange: the last entry of a player wins
EloChangeMap(changes) ==
  [p \in {changes[i].player_id : i \in 1..Len(changes)} |->
     LET last == CHOOSE i \in 1..Len(changes) :
                   /\ changes[i].player_id = p
                   /\ \A j \in 1..Len(changes) : changes[j].player_id = p => j <= i
     IN  changes[last]]

\* Player::find_by_ids, then create_player_elo_map
create_player_elo_map(d, player_ids) ==
  [p \in {q \in player_ids : Has(d.players[q])} |-> Val(d.players[p])]

\* PlayerTournamentScore::get_or_create_batch: the rows it inserts ...
MissingTournamentRows(d, player_ids) == {p \in player_ids : ~Has(d.pts[p])}

\* get_or_create_batch as an upsert that writes the starting value
get_or_create_batch_reset(d, player_ids) ==
  [d EXCEPT !.pts = [p \in Players |->
                       IF p \in player_ids THEN Row(STARTING_TOURNAMENT_ELO) ELSE @[p]]]

\* ... the database after it ...
get_or_create_batch(d, player_ids) ==
  [d EXCEPT !.pts = [p \in Players |->
                       IF p \in MissingTournamentRows(d, player_ids)
                       THEN Row(STARTING_TOURNAMENT_ELO) ELSE @[p]]]

\* ... and the map it returns
TournamentEloMap(d, player_ids) ==
  [p \in {q \in player_ids : Has(d.pts[q])} |-> Val(d.pts[p])]

\* PlayerTournamentScore::update_elo_batch: only existing rows change
update_elo_batch(d, updates) ==
  [d EXCEPT !.pts = [p \in Players |->
                       IF p \in DOMAIN updates /\ Has(@[p]) THEN Row(updates[p]) ELSE @[p]]]

\* the INSERT INTO player_race_scores loop
RaceScoreKeys(m, r, results) == {<<m, r, p>> : p \in ResultPlayers(results)}

\* some INSERT of the loop meets a row with the same (match, round, player)
race_score_conflict(d, m, r, results) ==
  \/ \E k \in RaceScoreKeys(m, r, results) : Has(d.race_scores[k])
  \/ Cardinality(ResultPlayers(results)) # Len(results)

\* the INSERT loop stopped after its first row
insert_race_scores_first_only(d, m, r, results, all_time_elo_changes, tournament_elo_changes) ==
  [d EXCEPT !.race_scores =
     [k \in DOMAIN @ |->
        IF k = <<m, r, results[1].player_id>>
        THEN Row([position |-> results[1].position,
                  all_time_elo_change |-> all_time_elo_changes[1].elo_change,
                  all_time_elo_after |-> all_time_elo_changes[1].new_elo,
                  tournament_elo_change |-> tournament_elo_changes[1].elo_change,
                  tournament_elo_after |-> tournament_elo_changes[1].new_elo])
        ELSE @[k]]]

\* race-score rows whose after-values are the ratings before the round
insert_race_scores_rating_before(d, m, r, results, all_time_elo_changes, tournament_elo_changes) ==
  LET all_time_elo_map == EloChangeMap(all_time_elo_changes)
      tournament_elo_map == EloChangeMap(tournament_elo_changes)
      row(i) == [position |-> results[i].position,
                 all_time_elo_change |-> all_time_elo_map[results[i].player_id].elo_change,
                 all_time_elo_after |-> all_time_elo_map[results[i].player_id].new_elo
                                        - all_time_elo_map[results[i].player_id].elo_change,
                 tournament_elo_change |-> tournament_elo_map[results[i].player_id].elo_change,
                 tournament_elo_after |-> tournament_elo_map[results[i].player_id].new_elo
                                          - tournament_elo_map[results[i].player_id].elo_change]
  IN  [d EXCEPT !.race_scores =
         [k \in DOMAIN @ |->
            IF k \in RaceScoreKeys(m, r, results)
            THEN Row(row(CHOOSE i \in 1..Len(results) : results[i].player_id = k[3]))
            ELSE @[k]]]

insert_race_scores(d, m, r, results, all_time_elo_changes, tournament_elo_changes) ==
  LET all_time_elo_map == EloChangeMap(all_time_elo_changes)
      tournament_elo_map == EloChangeMap(tournament_elo_changes)
      row(i) == [position |-> results[i].position,
                 all_time_elo_change |-> all_time_elo_map[results[i].player_id].elo_change,
                 all_time_elo_after |-> all_time_elo_map[results[i].player_id].new_elo,
                 tournament_elo_change |-> tournament_elo_map[results[i].player_id].elo_change,
                 tournament_elo_after |-> tournament_elo_map[results[i].player_id].new_elo]
  IN  [d EXCEPT !.race_scores =
         [k \in DOMAIN @ |->
            IF k \in RaceScoreKeys(m, r, results)
            THEN Row(row(CHOOSE i \in 1..Len(results) : results[i].player_id = k[3]))
            ELSE @[k]]]

\* team_players joined with teams of the match: player -> team
PlayerToTeam(d, m) ==
  LET teams == IF Has(d.teams[m]) THEN Val(d.teams[m]) ELSE <<>>
      members == UNION {Range(teams[t].players) : t \in 1..Len(teams)}
  IN  [p \in members |->
         (CHOOSE t \in 1..Len(teams) : p \in Range(teams[t].players))]

TeamToPlayers(d, m) ==
  LET player_to_team == PlayerToTeam(d, m)
  IN  [t \in {player_to_team[p] : p \in DOMAIN player_to_team} |->
         {p \in DOMAIN player_to_team : player_to_team[p] = t}]

TeammateContributions(d, m, results, tournament_elo_changes) ==
  LET tournament_elo_map == EloChangeMap(tournament_elo_changes)
  IN  calculate_teammate_contributions(
        results, PlayerToTeam(d, m), TeamToPlayers(d, m),
        [p \in DOMAIN tournament_elo_map |-> tournament_elo_map[p].elo_change])

ContributionKeys(m, r, contributions) ==
  {<<m, r, contributions[i].source_player_id, contributions[i].beneficiary_player_id>> :
     i \in 1..Len(contributions)}

\* PlayerTeammateEloContribution::insert_contributions_batch
insert_contributions_batch(d, m, r, contributions) ==
  [d EXCEPT !.contributions =
     [k \in DOMAIN @ |->
        IF k \in ContributionKeys(m, r, contributions)
        THEN LET c == contributions[CHOOSE i \in 1..Len(contributions) :
                                      /\ contributions[i].source_player_id = k[3]
                                      /\ contributions[i].beneficiary_player_id = k[4]]
             IN  Row([source_tournament_elo_change |-> c.source_tournament_elo_change,
                      contribution_amount |-> c.contribution_amount])
        ELSE @[k]]]

\* tournament_elo_updates_with_contributions: beneficiary -> new rating
BeneficiaryUpdates(adjustments, tournament_elo_changes, beneficiary_current_elos) ==
  LET tournament_elo_map == EloChangeMap(tournament_elo_changes)
  IN  [p \in DOMAIN adjustments |->
         LET base_elo == IF p \in DOMAIN tournament_elo_map
                         THEN tournament_elo_map[p].new_elo
                         ELSE IF p \in DOMAIN beneficiary_current_elos
                              THEN beneficiary_current_elos[p]
                              ELSE 1200
         IN  base_elo + adjustments[p]]

\* the UPDATE players SET elo_rating loop
update_players(d, all_time_elo_changes) ==
  LET all_time_elo_map == EloChangeMap(all_time_elo_changes)
  IN  [d EXCEPT !.players =
         [p \in Players |->
            IF p \in DOMAIN all_time_elo_map /\ Has(@[p])
            THEN Row(all_time_elo_map[p].new_elo) ELSE @[p]]]

\* tournament_elo_updates: the racers no contribution update has touched
TournamentUpdates(tournament_elo_changes, already_updated_players) ==
  LET tournament_elo_map == EloChangeMap(tournament_elo_changes)
  IN  [p \in DOMAIN tournament_elo_map \ already_updated_players |->
         tournament_elo_map[p].new_elo]

(***************************************************************************)
(* services/score_calculation.rs                                           *)
(***************************************************************************)
\* contribution amounts the player received in round r of match m
RoundContributionsReceived(d, m, r, p) ==
  LET keys == {k \in DOMAIN d.contributions :
                 k[1] = m /\ k[2] = r /\ k[4] = p /\ Has(d.contributions[k])}
  IN  SumOver([k \in keys |-> Val(d.contributions[k]).contribution_amount], keys)

\* one aggregate per player with a race score in the match
calculate_player_match_aggregates(d, m, r, all_time_elo_changes, tournament_elo_changes) ==
  LET scored(p) == {k \in DOMAIN d.race_scores :
                      k[1] = m /\ k[3] = p /\ Has(d.race_scores[k])}
      all_time_elo_change_map == EloChangeMap(all_time_elo_changes)
      tournament_elo_change_map == EloChangeMap(tournament_elo_changes)
  IN  [p \in {q \in Players : scored(q) # {}} |->
         [avg_position |->
            RoundDiv(SumOver([k \in scored(p) |-> Val(d.race_scores[k]).position],
                             scored(p)),
                     Cardinality(scored(p))),
          all_time_elo_change |->
            IF p \in DOMAIN all_time_elo_change_map
            THEN all_time_elo_change_map[p].elo_change ELSE 0,
          tournament_elo_change_from_races |->
            IF p \in DOMAIN tournament_elo_change_map
            THEN tournament_elo_change_map[p].elo_change ELSE 0,
          tournament_elo_change_from_contributions |->
            RoundContributionsReceived(d, m, r, p)]]

\* the UPDATE player_match_scores loop of record_results_in_transaction
update_player_match_scores(d, m, player_match_updates) ==
  [d EXCEPT !.pms =
     [k \in DOMAIN @ |->
        IF k[1] = m /\ k[2] \in DOMAIN player_match_updates /\ Has(@[k])
        THEN LET u == player_match_updates[k[2]]
                 old == Val(@[k])
             IN  Row([position |-> u.avg_position,
                      elo_change |-> old.elo_change + u.all_time_elo_change,
                      tournament_elo_from_races |->
                        old.tournament_elo_from_races + u.tournament_elo_change_from_races,
                      tournament_elo_from_contributions |->
                        old.tournament_elo_from_contributions
                        + u.tournament_elo_change_from_contributions,
                      tournament_elo_change |->
                        old.tournament_elo_change
                        + u.tournament_elo_change_from_races
                        + u.tournament_elo_change_from_contributions])
        ELSE @[k]]]

\* UPDATE rounds SET completed = (round_number = r) WHERE match_id = m
mark_round_only(d, m, r) ==
  [d EXCEPT !.rounds =
     [k \in DOMAIN @ |->
        IF k[1] = m /\ Has(@[k])
        THEN Row([Val(@[k]) EXCEPT !.completed = (k[2] = r)]) ELSE @[k]]]

\* UPDATE rounds SET completed = true WHERE match_id = m AND round_number = r
mark_round_completed(d, m, r) ==
  [d EXCEPT !.rounds =
     [k \in DOMAIN @ |->
        IF k = <<m, r>> /\ Has(@[k])
        THEN Row([Val(@[k]) EXCEPT !.completed = TRUE]) ELSE @[k]]]

MatchRounds(d, m) == {k \in DOMAIN d.rounds : k[1] = m /\ Has(d.rounds[k])}

\* check_all_rounds_completed with incomplete_count <= 1
check_at_most_one_incomplete(d, m) ==
  Cardinality({k \in MatchRounds(d, m) : ~Val(d.rounds[k]).completed}) <= 1

\* check_all_rounds_completed with incomplete_count >= 0
check_always_completed(d, m) ==
  Cardinality({k \in MatchRounds(d, m) : ~Val(d.rounds[k]).completed}) >= 0

check_all_rounds_completed(d, m) ==
  LET incomplete_count == Cardinality({k \in MatchRounds(d, m) : ~Val(d.rounds[k]).completed})
  IN  incomplete_count = 0

\* race_scores: a function whose values are [team_id, position];
\* the result gives every team with a score its total over num_rounds
calculate_team_scores_from_positions(race_scores, num_rounds) ==
  LET keys == DOMAIN race_scores
      teams == {race_scores[k].team_id : k \in keys}
      of(t) == {k \in keys : race_scores[k].team_id = t}
  IN  [t \in teams |->
         [total |-> SumOver([k \in of(t) |-> position_to_points(race_scores[k].position)],
                            of(t)),
          num_rounds |-> num_rounds]]

\* player_race_scores joined with round_players on (match, round, player)
TeamPositions(d, m) ==
  LET lineup(k) == IF Has(d.round_players[<<k[1], k[2]>>])
                   THEN Val(d.round_players[<<k[1], k[2]>>]) ELSE <<>>
      joined == {k \in DOMAIN d.race_scores :
                   /\ k[1] = m
                   /\ Has(d.race_scores[k])
                   /\ \E i \in 1..Len(lineup(k)) : lineup(k)[i].player_id = k[3]}
  IN  [k \in joined |->
         [team_id |-> lineup(k)[CHOOSE i \in 1..Len(lineup(k)) :
                                  lineup(k)[i].player_id = k[3]].team_num,
          position |-> Val(d.race_scores[k]).position]]

\* team_match_scores.score is total / num_rounds, teams.score its rounding
calculate_and_store_team_scores(d, m) ==
  LET team_scores == calculate_team_scores_from_positions(
                       TeamPositions(d, m), Cardinality(MatchRounds(d, m)))
  IN  [d EXCEPT !.team_scores =
         [k \in DOMAIN @ |->
            IF k[1] = m /\ k[2] \in DOMAIN team_scores
            THEN Row([total |-> team_scores[k[2]].total,
                      num_rounds |-> team_scores[k[2]].num_rounds,
                      score |-> RoundDiv(team_scores[k[2]].total,
                                         team_scores[k[2]].num_rounds)])
            ELSE @[k]]]

\* UPDATE matches SET completed = true WHERE id = m
complete_match(d, m) ==
  [d EXCEPT !.matches =
     [k \in DOMAIN @ |->
        IF k = m /\ Has(@[k]) THEN Row([Val(@[k]) EXCEPT !.completed = TRUE]) ELSE @[k]]]

(***************************************************************************)
(* services/track_selection.rs, services/match_service.rs                  *)
(***************************************************************************)
\* Track::find_all: the ids of the catalog
find_all(d) == {k \in DOMAIN d.tracks : Has(d.tracks[k])}

\* track ids of the catalog-size most recent rounds of the tournament
RecentlyUsedTracks(d) ==
  LET rows == {k \in DOMAIN d.rounds : Has(d.rounds[k]) /\ Has(d.matches[k[1]])}
      time(k) == Val(d.matches[k[1]]).time
      Newer(j, k) == time(j) > time(k) \/ (time(j) = time(k) /\ j[2] > k[2])
      rank(k) == Cardinality({j \in rows : Newer(j, k)})
  IN  {Val(d.rounds[k]).track_id : k \in {j \in rows : rank(j) < Cardinality(find_all(d))}}

select_tracks_available_only(d, num_races) ==
  LET track_pool == find_all(d) \ RecentlyUsedTracks(d)
      n == Min(num_races, Cardinality(track_pool))
  IN  {sel \in [1..n -> track_pool] : \A i, j \in 1..n : sel[i] = sel[j] => i = j}

\* every sequence of tracks the shuffle-and-take can return
select_tracks(d, num_races) ==
  LET recently_used_track_ids == RecentlyUsedTracks(d)
      available_tracks == find_all(d) \ recently_used_track_ids
      track_pool == IF Cardinality(available_tracks) >= num_races
                    THEN available_tracks ELSE find_all(d)
      n == Min(num_races, Cardinality(track_pool))
  IN  {sel \in [1..n -> track_pool] : \A i, j \in 1..n : sel[i] = sel[j] => i = j}

\* Player::find_by_ids as a sequence of [id, elo_rating], in table order
find_by_ids(d, player_ids) ==
  LET found == SortedNames({p \in Range(player_ids) : p \in Players /\ Has(d.players[p])})
  IN  [i \in 1..Len(found) |-> [id |-> found[i], elo_rating |-> Val(d.players[found[i]])]]

\* the rows create_match_in_transaction inserts for the new match m
create_match_in_transaction(d, m, num_races, teams, tracks, race_allocations) ==
  LET team_of(p) == CHOOSE t \in 1..Len(teams) :
                      \E i \in 1..Len(teams[t].players) : teams[t].players[i].id = p
      all_player_ids == UNION {{teams[t].players[i].id : i \in 1..Len(teams[t].players)} :
                                 t \in 1..Len(teams)}
      time == Cardinality({k \in DOMAIN d.matches : Has(d.matches[k])})
  IN  [d EXCEPT
         !.matches = [@ EXCEPT ![m] = Row([tournament_id |-> TournamentId,
                                           rounds |-> num_races,
                                           completed |-> FALSE,
                                           time |-> time])],
         !.teams = [@ EXCEPT ![m] =
                      Row([t \in 1..Len(teams) |->
                             [team_num |-> teams[t].team_num,
                              players |-> [i \in 1..Len(teams[t].players) |->
                                             teams[t].players[i].id]]])],
         !.pms = [k \in DOMAIN @ |->
                    IF k[1] = m /\ k[2] \in all_player_ids
                    THEN Row([position |-> 0, elo_change |-> 0,
                              tournament_elo_change |-> 0,
                              tournament_elo_from_races |-> 0,
                              tournament_elo_from_contributions |-> 0])
                    ELSE @[k]],
         !.rounds = [k \in DOMAIN @ |->
                       IF k[1] = m /\ k[2] \in 1..Len(tracks)
                       THEN Row([track_id |-> tracks[k[2]], completed |-> FALSE])
                       ELSE @[k]],
         !.round_players =
            [k \in DOMAIN @ |->
               IF k[1] = m /\ k[2] \in 1..Len(race_allocations)
               THEN Row([i \in 1..Len(race_allocations[k[2]].player_ids) |->
                           [player_id |-> race_allocations[k[2]].player_ids[i],
                            team_num |->
                              teams[team_of(race_allocations[k[2]].player_ids[i])].team_num]])
               ELSE @[k]]]

(***************************************************************************)
(* Processes: each runs record_round_results requests, one at a time       *)
(***************************************************************************)
\* result lists a request may carry, the players in creation order
InputResults ==
  {res \in UNION {[1..n -> [player_id : Players, position : InputPositions]] :
                    n \in 0..MaxResults} :
     \A i \in 1..(Len(res) - 1) :
       PlayerIndex(res[i].player_id) <= PlayerIndex(res[i + 1].player_id)}

\* those that pass validate_results
WellFormedResults == {res \in InputResults : validate_results(res)}

NoCall == [match_id |-> "none", round_number |-> 0, results |-> <<>>,
           tournament_id |-> "none", group_id |-> "none",
           op |-> "none", player_ids |-> <<>>, num_races |-> 0,
           players_per_race |-> 0]

\* the locals of a request that has not read anything yet
Locals0 ==
  [match_record |-> NoRow,
   all_time_elos |-> <<>>,
   all_time_elo_changes |-> <<>>,
   tournament_elo_changes |-> <<>>,
   adjustments |-> <<>>,
   beneficiary_current_elos |-> <<>>,
   tournament_elos |-> <<>>,
   completes |-> FALSE,
   winner_id |-> NilId,
   stats |-> <<>>,
   players |-> <<>>,
   elo_ratings |-> <<>>,
   teams |-> <<>>,
   tracks |-> <<>>,
   race_allocations |-> <<>>,
   human_results |-> <<>>,
   full_field |-> <<>>,
   player_to_team |-> <<>>,
   contributions |-> <<>>]

Idle == [pc |-> "idle", call |-> NoCall, outcome |-> "none", loc |-> Locals0]

\* the program points inside a request
InFlight == {"find_match", "find_round", "round_players", "find_players",
             "tournament_elos", "insert_scores", "contributions",
             "beneficiary_update", "update_players", "update_tournament",
             "aggregates", "mark_round", "check_complete", "commit"}

Quiescent == \A p \in Procs : proc[p].pc \notin InFlight

\* bookkeeping for the properties; no action reads it:
\*   wrote[p]        the current request of p has changed the committed state
\*   start_scored[p] its round was already completed when it arrived
\*   overlap         the current requests of the two clients have overlapped
\*   faulted[p]      it was ended by a storage failure
\*   base            the committed state right after create_match
\*   hist            the committed requests, in commit order
\*   completions[m]  how many commits carried the completion step of m
\* and the broadcast channel of the notification manager:
\*   channel         the notifications sent to the subscribers
Ghost0 ==
  [wrote |-> [p \in Procs |-> FALSE],
   start_scored |-> [p \in Procs |-> FALSE],
   overlap |-> FALSE,
   faulted |-> [p \in Procs |-> FALSE],
   base |-> EmptyDb,
   hist |-> <<>>,
   completions |-> [m \in MatchIds |-> 0],
   channel |-> {}]

Init ==
  /\ \E elos \in InitialElos :
       db = [EmptyDb EXCEPT
               !.players = [p \in Players |-> Row(elos[p])],
               !.tournaments = [t \in {TournamentId} |->
                                  Row([group_id |-> GroupId, winner |-> NilId])],
               !.tracks = [k \in TrackIds |->
                             IF k \in TrackCatalog THEN Row(k) ELSE NoRow]]
  /\ priv = [p \in Procs |-> EmptyDb]
  /\ locks = [p \in Procs |-> NoLocks]
  /\ proc = [p \in Procs |-> Idle]
  /\ ghost = Ghost0

(***************************************************************************)
(* create_match_with_rounds: reads, the three allocators, one transaction  *)
(***************************************************************************)
CreateMatch(m, player_ids, num_races, players_per_race) ==
  /\ ~Has(db.matches[m])
  /\ LET players == find_by_ids(db, player_ids)
     IN  /\ validate_create_match_inputs(player_ids, num_races, players_per_race)
         /\ Len(players) = Len(player_ids)
         /\ LET teams == allocate_teams(players, players_per_race,
                                        TournamentEloMap(db, Players))
                race_allocations == allocate_races(teams, num_races)
            IN  \E tracks \in select_tracks(db, num_races) :
                  db' = create_match_in_transaction(db, m, num_races, teams, tracks,
                                                    race_allocations)
  /\ ghost' = [ghost EXCEPT !.base = db', !.hist = <<>>]
  /\ UNCHANGED <<priv, locks, proc>>

(***************************************************************************)
(* record_round_results (graphql/rounds/mutations.rs) calling              *)
(* record_race_results and record_results_in_transaction                   *)
(* (services/result_recording.rs)                                          *)
(***************************************************************************)
Submitted(p) == [i \in 1..Len(proc[p].call.results) |-> proc[p].call.results[i].player_id]

\* get_round_players: the round's lineup
get_round_players(d, m, r) ==
  LET lineup == IF Has(d.round_players[<<m, r>>]) THEN Val(d.round_players[<<m, r>>])
                ELSE <<>>
  IN  [i \in 1..Len(lineup) |-> lineup[i].player_id]

\* record_race_results with tournament_player_elos passed to both calls
ladder_elo_changes_one_map(results, all_time_elos, tournament_elos) ==
  LET tournament_player_results == create_player_results(results, tournament_elos)
  IN  IF ~Has(tournament_player_results)
      THEN NoRow
      ELSE Row([all_time |-> calculate_elo_changes(Val(tournament_player_results)),
                tournament |-> calculate_elo_changes(Val(tournament_player_results))])

\* record_race_results 253-257: the one rating function, applied to each
\* ladder's own map; NoRow when a player is missing from a map
ladder_elo_changes(results, all_time_elos, tournament_elos) ==
  LET all_time_player_results == create_player_results(results, all_time_elos)
      tournament_player_results == create_player_results(results, tournament_elos)
  IN  IF ~Has(all_time_player_results) \/ ~Has(tournament_player_results)
      THEN NoRow
      ELSE Row([all_time |-> calculate_elo_changes(Val(all_time_player_results)),
                tournament |-> calculate_elo_changes(Val(tournament_player_results))])

\* the rows the next statement of process p writes
NextNeeds(p) ==
  LET c == proc[p].call
      l == proc[p].loc
      m == c.match_id
      r == c.round_number
      v == View(p)
      ids == ResultPlayers(c.results)
      contribs == TeammateContributions(v, m, c.results, l.tournament_elo_changes)
      withRow(n, K) == Rows(n, {k \in K : Has(v[n][k])})
  IN  CASE proc[p].pc = "tournament_elos" ->
             Rows("pts", MissingTournamentRows(db, ids))
        [] proc[p].pc = "insert_scores" ->
             Rows("race_scores", RaceScoreKeys(m, r, c.results))
        [] proc[p].pc = "contributions" ->
             LockUnion(Rows("contributions",
                            ContributionKeys(m, r, contribs.contributions)),
                       Rows("pts", MissingTournamentRows(v, DOMAIN contribs.adjustments)))
        [] proc[p].pc = "beneficiary_update" ->
             withRow("pts", DOMAIN l.adjustments)
        [] proc[p].pc = "update_players" ->
             withRow("players", DOMAIN EloChangeMap(l.all_time_elo_changes))
        [] proc[p].pc = "update_tournament" ->
             withRow("pts", DOMAIN TournamentUpdates(l.tournament_elo_changes,
                                                     DOMAIN l.adjustments))
        [] proc[p].pc = "aggregates" ->
             withRow("pms",
                     {<<m, q>> : q \in DOMAIN calculate_player_match_aggregates(
                                          v, m, r, l.all_time_elo_changes,
                                          l.tournament_elo_changes)})
        [] proc[p].pc = "mark_round" ->
             withRow("rounds", {<<m, r>>})
        [] proc[p].pc = "check_complete" ->
             IF check_all_rounds_completed(v, m)
             THEN LockUnion(Rows("team_scores", {<<m, t>> : t \in TeamNums}),
                            withRow("matches", {m}))
             ELSE NoLocks
        [] OTHER -> NoLocks

\* the request of p ends with the given outcome; an open transaction is
\* rolled back
Finished(p, outcome) ==
  /\ proc' = [proc EXCEPT ![p] = [pc |-> "done", call |-> @.call,
                                  outcome |-> outcome, loc |-> Locals0]]
  /\ locks' = [locks EXCEPT ![p] = NoLocks]
  /\ priv' = [priv EXCEPT ![p] = EmptyDb]

\* p moves to program point pc with its locals changed to loc
Goto(p, pc, loc) == proc' = [proc EXCEPT ![p] = [@ EXCEPT !.pc = pc, !.loc = loc]]

\* the rows in which the databases v and w differ
Written(v, w) == TableRecord(LAMBDA n : {k \in DOMAIN v[n] : v[n][k] # w[n][k]})

\* a statement of p's transaction turns its view into newview; it locks the
\* rows of needs and every row it changes
TxWrite(p, needs, newview) ==
  \E held \in {LockUnion(LockUnion(locks[p], needs), Written(View(p), newview))} :
    /\ locks' = [locks EXCEPT ![p] = held]
    /\ priv' = [priv EXCEPT ![p] = Mask(newview, held)]

\* the request arrives; validate_results runs before any database access
Call(p, m, r, results) ==
  /\ proc[p].pc = "idle"
  /\ LET call == [NoCall EXCEPT !.match_id = m, !.round_number = r, !.results = results]
     IN  proc' = [proc EXCEPT ![p] =
                    IF validate_results(results)
                    THEN [pc |-> "find_match", call |-> call, outcome |-> "none",
                          loc |-> Locals0]
                    ELSE [pc |-> "done", call |-> call, outcome |-> "validation",
                          loc |-> Locals0]]
  /\ ghost' = [ghost EXCEPT
                 !.start_scored[p] = /\ Has(db.rounds[<<m, r>>])
                                     /\ Val(db.rounds[<<m, r>>]).completed,
                 !.overlap = /\ validate_results(results)
                             /\ \E q \in Procs \ {p} : proc[q].pc \in InFlight]
  /\ UNCHANGED <<db, priv, locks>>

\* the response is delivered
Return(p) ==
  /\ proc[p].pc = "done"
  /\ proc' = [proc EXCEPT ![p] = Idle]
  /\ ghost' = [ghost EXCEPT !.wrote[p] = FALSE, !.start_scored[p] = FALSE,
                            !.overlap = FALSE, !.faulted[p] = FALSE]
  /\ UNCHANGED <<db, priv, locks>>

\* Match::find_by_id and the completed check (mutations.rs 41-51)
FindMatch(p) ==
  /\ proc[p].pc = "find_match"
  /\ LET cell == db.matches[proc[p].call.match_id]
     IN  IF ~Has(cell) THEN Finished(p, "not_found")
         ELSE IF Val(cell).completed THEN Finished(p, "conflict")
         ELSE /\ Goto(p, "find_round", [proc[p].loc EXCEPT !.match_record = cell])
              /\ UNCHANGED <<locks, priv>>
  /\ UNCHANGED <<db, ghost>>

\* Round::find_one without the completed check
FindRoundUnchecked(p) ==
  /\ proc[p].pc = "find_round"
  /\ LET cell == db.rounds[<<proc[p].call.match_id, proc[p].call.round_number>>]
     IN  IF ~Has(cell) THEN Finished(p, "not_found")
         ELSE /\ Goto(p, "round_players", proc[p].loc)
              /\ UNCHANGED <<locks, priv>>
  /\ UNCHANGED <<db, ghost>>

\* Round::find_one and the completed check (mutations.rs 53-59)
FindRound(p) ==
  /\ proc[p].pc = "find_round"
  /\ LET cell == db.rounds[<<proc[p].call.match_id, proc[p].call.round_number>>]
     IN  IF ~Has(cell) THEN Finished(p, "not_found")
         ELSE IF Val(cell).completed THEN Finished(p, "conflict")
         ELSE /\ Goto(p, "round_players", proc[p].loc)
              /\ UNCHANGED <<locks, priv>>
  /\ UNCHANGED <<db, ghost>>

\* get_round_players and validate_players_in_round (mutations.rs 61-62)
ValidatePlayers(p) ==
  /\ proc[p].pc = "round_players"
  /\ LET round_players == get_round_players(db, proc[p].call.match_id,
                                            proc[p].call.round_number)
     IN  IF validate_players_in_round(Submitted(p), round_players)
         THEN /\ Goto(p, "find_players", proc[p].loc)
              /\ UNCHANGED <<locks, priv>>
         ELSE Finished(p, "validation")
  /\ UNCHANGED <<db, ghost>>

\* record_race_results 232-235: the all-time ratings, read from the pool
FindPlayers(p) ==
  /\ proc[p].pc = "find_players"
  /\ Goto(p, "tournament_elos",
          [proc[p].loc EXCEPT
             !.all_time_elos = create_player_elo_map(db, ResultPlayers(proc[p].call.results))])
  /\ UNCHANGED <<db, priv, locks, ghost>>

\* record_race_results 237-257: get_or_create_batch in a transaction of its
\* own, committed at once; then both rating computations
ComputeEloChanges(p) ==
  /\ proc[p].pc = "tournament_elos"
  /\ Free(p, NextNeeds(p))
  /\ db' = get_or_create_batch(db, ResultPlayers(proc[p].call.results))
  /\ ghost' = [ghost EXCEPT !.wrote[p] = @ \/ (db' # db)]
  /\ \E tournament_player_elos \in
          {TournamentEloMap(db', ResultPlayers(proc[p].call.results))} :
       \E changes \in {ladder_elo_changes(proc[p].call.results,
                                          proc[p].loc.all_time_elos,
                                          tournament_player_elos)} :
         IF ~Has(changes)
         THEN Finished(p, "not_found")
         ELSE /\ Goto(p, "insert_scores",
                      [proc[p].loc EXCEPT
                         !.tournament_elos = tournament_player_elos,
                         !.all_time_elo_changes = Val(changes).all_time,
                         !.tournament_elo_changes = Val(changes).tournament])
              /\ UNCHANGED <<locks, priv>>

\* record_results_in_transaction 310-347: begin, the INSERT loop
InsertRaceScores(p) ==
  /\ proc[p].pc = "insert_scores"
  /\ \E needs \in {NextNeeds(p)}, v \in {View(p)} :
       /\ Free(p, needs)
       /\ LET c == proc[p].call
          IN  IF race_score_conflict(v, c.match_id, c.round_number, c.results)
              THEN Finished(p, "internal")
              ELSE /\ TxWrite(p, needs,
                              insert_race_scores(v, c.match_id, c.round_number,
                                                 c.results,
                                                 proc[p].loc.all_time_elo_changes,
                                                 proc[p].loc.tournament_elo_changes))
                   /\ Goto(p, "contributions", proc[p].loc)
  /\ UNCHANGED <<db, ghost>>

\* 349-412: the contribution rows and the beneficiaries' current ratings
InsertContributions(p) ==
  /\ proc[p].pc = "contributions"
  /\ \E needs \in {NextNeeds(p)}, v \in {View(p)} :
       /\ Free(p, needs)
       /\ \E contribs \in {TeammateContributions(v, proc[p].call.match_id,
                                                 proc[p].call.results,
                                                 proc[p].loc.tournament_elo_changes)} :
            LET c == proc[p].call
                beneficiary_ids == DOMAIN contribs.adjustments
                d1 == insert_contributions_batch(v, c.match_id, c.round_number,
                                                 contribs.contributions)
                d2 == get_or_create_batch(d1, beneficiary_ids)
            IN  IF Len(contribs.contributions) = 0
                THEN /\ Goto(p, "update_players", proc[p].loc)
                     /\ UNCHANGED <<locks, priv>>
                ELSE /\ TxWrite(p, needs, d2)
                     /\ Goto(p, "beneficiary_update",
                             [proc[p].loc EXCEPT
                                !.adjustments = contribs.adjustments,
                                !.beneficiary_current_elos =
                                   TournamentEloMap(d2, beneficiary_ids)])
  /\ UNCHANGED <<db, ghost>>

\* 414-434: update_elo_batch for the beneficiaries
UpdateBeneficiaries(p) ==
  /\ proc[p].pc = "beneficiary_update"
  /\ \E needs \in {NextNeeds(p)}, v \in {View(p)} :
       /\ Free(p, needs)
       /\ TxWrite(p, needs,
                  update_elo_batch(v, BeneficiaryUpdates(
                                        proc[p].loc.adjustments,
                                        proc[p].loc.tournament_elo_changes,
                                        proc[p].loc.beneficiary_current_elos)))
  /\ Goto(p, "update_players", proc[p].loc)
  /\ UNCHANGED <<db, ghost>>

\* 437-448: the UPDATE players loop
UpdatePlayers(p) ==
  /\ proc[p].pc = "update_players"
  /\ \E needs \in {NextNeeds(p)}, v \in {View(p)} :
       /\ Free(p, needs)
       /\ TxWrite(p, needs, update_players(v, proc[p].loc.all_time_elo_changes))
  /\ Goto(p, "update_tournament", proc[p].loc)
  /\ UNCHANGED <<db, ghost>>

\* 450-458: update_elo_batch for the racers without a contribution update
UpdateTournamentElos(p) ==
  /\ proc[p].pc = "update_tournament"
  /\ \E needs \in {NextNeeds(p)}, v \in {View(p)} :
       /\ Free(p, needs)
       /\ TxWrite(p, needs,
                  update_elo_batch(v, TournamentUpdates(
                                        proc[p].loc.tournament_elo_changes,
                                        DOMAIN proc[p].loc.adjustments)))
  /\ Goto(p, "aggregates", proc[p].loc)
  /\ UNCHANGED <<db, ghost>>

\* 460-498: the match aggregates
UpdateMatchAggregates(p) ==
  /\ proc[p].pc = "aggregates"
  /\ \E needs \in {NextNeeds(p)}, v \in {View(p)} :
       /\ Free(p, needs)
       /\ LET c == proc[p].call
          IN  TxWrite(p, needs,
                      update_player_match_scores(
                        v, c.match_id,
                        calculate_player_match_aggregates(
                          v, c.match_id, c.round_number,
                          proc[p].loc.all_time_elo_changes,
                          proc[p].loc.tournament_elo_changes)))
  /\ Goto(p, "mark_round", proc[p].loc)
  /\ UNCHANGED <<db, ghost>>

\* 500-508: the round's completed flag
MarkRoundCompleted(p) ==
  /\ proc[p].pc = "mark_round"
  /\ \E needs \in {NextNeeds(p)}, v \in {View(p)} :
       /\ Free(p, needs)
       /\ TxWrite(p, needs, mark_round_completed(v, proc[p].call.match_id,
                                                 proc[p].call.round_number))
  /\ Goto(p, "check_complete", proc[p].loc)
  /\ UNCHANGED <<db, ghost>>

\* 510-527: the completion check and, on the last round, the team scores
\* and the match's completed flag
CompleteMatchIfAllRounds(p) ==
  /\ proc[p].pc = "check_complete"
  /\ \E needs \in {NextNeeds(p)}, v \in {View(p)} :
       /\ Free(p, needs)
       /\ LET m == proc[p].call.match_id
              all_rounds_completed == check_all_rounds_completed(v, m)
          IN  IF all_rounds_completed
              THEN /\ TxWrite(p, needs,
                              complete_match(calculate_and_store_team_scores(v, m), m))
                   /\ Goto(p, "commit", [proc[p].loc EXCEPT !.completes = TRUE])
              ELSE /\ Goto(p, "commit", proc[p].loc)
                   /\ UNCHANGED <<locks, priv>>
  /\ UNCHANGED <<db, ghost>>

\* 529-533: commit
Commit(p) ==
  /\ proc[p].pc = "commit"
  /\ db' = View(p)
  /\ ghost' = [ghost EXCEPT
                 !.wrote[p] = @ \/ (db' # db),
                 !.hist = Append(@, proc[p].call),
                 !.completions[proc[p].call.match_id] =
                    IF proc[p].loc.completes THEN @ + 1 ELSE @]
  /\ Finished(p, "ok")

\* a statement or the commit fails in the storage layer (every `?` on a
\* sqlx call): the request ends with an internal error
Fault(p) ==
  /\ proc[p].pc \in InFlight
  /\ Finished(p, "internal")
  /\ ghost' = [ghost EXCEPT !.faulted[p] = TRUE]
  /\ UNCHANGED db

\* p waits for a row q has locked while q waits for a row p has locked:
\* PostgreSQL aborts a transaction of the cycle (error 40P01)
WaitsFor(p, q) == Overlap(NextNeeds(p), locks[q])

DeadlockAbort(p) ==
  /\ proc[p].pc \in InFlight
  /\ locks[p] # NoLocks
  /\ \E q \in Procs \ {p} : locks[q] # NoLocks /\ WaitsFor(p, q) /\ WaitsFor(q, p)
  /\ Finished(p, "internal")
  /\ UNCHANGED <<db, ghost>>

\* a submission for an existing round with one result for each player of
\* its lineup
Scheduled(m, r, results) ==
  /\ Has(db.rounds[<<m, r>>])
  /\ Len(results) = Len(get_round_players(db, m, r))
  /\ validate_players_in_round([i \in 1..Len(results) |-> results[i].player_id],
                               get_round_players(db, m, r))

\* two clients that submit well-formed results for scheduled rounds of a
\* match of one of the rosters, on a storage layer that does not fail
Next ==
  \/ \E m \in MatchIds, ids \in Rosters, n \in 0..MaxRounds,
        k \in InputPlayersPerRace : CreateMatch(m, ids, n, k)
  \/ \E p \in Procs :
       /\ proc[p].pc = "idle"
       /\ \E m \in MatchIds, r \in RoundNums, res \in WellFormedResults :
            Scheduled(m, r, res) /\ Call(p, m, r, res)
  \/ \E p \in Procs : Return(p)
  \/ \E p \in Procs : FindMatch(p)
  \/ \E p \in Procs : FindRound(p)
  \/ \E p \in Procs : ValidatePlayers(p)
  \/ \E p \in Procs : FindPlayers(p)
  \/ \E p \in Procs : ComputeEloChanges(p)
  \/ \E p \in Procs : InsertRaceScores(p)
  \/ \E p \in Procs : InsertContributions(p)
  \/ \E p \in Procs : UpdateBeneficiaries(p)
  \/ \E p \in Procs : UpdatePlayers(p)
  \/ \E p \in Procs : UpdateTournamentElos(p)
  \/ \E p \in Procs : UpdateMatchAggregates(p)
  \/ \E p \in Procs : MarkRoundCompleted(p)
  \/ \E p \in Procs : CompleteMatchIfAllRounds(p)
  \/ \E p \in Procs : Commit(p)
  \/ \E p \in Procs : DeadlockAbort(p)

Spec == Init /\ [][Next]_vars

\* one client that submits any request, on a storage layer that may fail
NextSolo ==
  \/ \E m \in MatchIds, ids \in InputPlayerLists, n \in 0..MaxRounds,
        k \in InputPlayersPerRace : CreateMatch(m, ids, n, k)
  \/ /\ proc["p1"].pc = "idle"
     /\ \E m \in MatchIds, r \in RoundNums, res \in InputResults : Call("p1", m, r, res)
  \/ Return("p1")
  \/ FindMatch("p1")
  \/ FindRound("p1")
  \/ ValidatePlayers("p1")
  \/ FindPlayers("p1")
  \/ ComputeEloChanges("p1")
  \/ InsertRaceScores("p1")
  \/ InsertContributions("p1")
  \/ UpdateBeneficiaries("p1")
  \/ UpdatePlayers("p1")
  \/ UpdateTournamentElos("p1")
  \/ UpdateMatchAggregates("p1")
  \/ MarkRoundCompleted("p1")
  \/ CompleteMatchIfAllRounds("p1")
  \/ Commit("p1")
  \/ Fault("p1")

SpecSolo == Init /\ [][NextSolo]_vars

(***************************************************************************)
(* complete_tournament (services/tournament_completion.rs): a read on the  *)
(* pool, then one transaction with calculate_winner, the three statistics  *)
(* queries, set_winner and insert_batch                                    *)
(***************************************************************************)
\* tournament ids and groups a complete_tournament request may carry
InputTournamentIds == {TournamentId, "t0"}

InputGroupIds == {GroupId, "g2"}

RaceStatTypes == {"best_race", "worst_race", "biggest_swing"}

ContributionStatTypes == {"best_teammate", "worst_teammate", "most_helped", "most_hurt"}

MatchStatTypes == {"best_match", "worst_match"}

\* the program points inside a complete_tournament request
CompletionInFlight == {"find_tournament", "calculate_winner", "race_stats",
                       "contribution_stats", "match_stats", "set_winner",
                       "insert_stats", "commit_tournament"}

\* Tournament::find_by_id
find_by_id(d, id) == IF id \in DOMAIN d.tournaments THEN d.tournaments[id] ELSE NoRow

\* the keys ORDER BY f DESC LIMIT 1 may return: a row no other row exceeds
ArgMax(f) == {k \in DOMAIN f : \A o \in DOMAIN f : f[o] <= f[k]}

\* the keys ORDER BY f ASC LIMIT 1 may return
ArgMin(f) == {k \in DOMAIN f : \A o \in DOMAIN f : f[k] <= f[o]}

SetMax(S) == CHOOSE x \in S : \A y \in S : y <= x

SetMin(S) == CHOOSE x \in S : \A y \in S : x <= y

\* elo_rating of the player_tournament_scores rows of the tournament
TournamentScoreRows(d) ==
  [q \in {o \in Players : Has(d.pts[o])} |-> Val(d.pts[q])]

\* calculate_winner that answers with the first player when the tournament
\* has no rating rows
calculate_winner_default(d) ==
  IF DOMAIN TournamentScoreRows(d) = {} THEN {PlayerOrder[1]}
  ELSE ArgMax(TournamentScoreRows(d))

\* calculate_winner returning the lowest rated player
calculate_winner_lowest(d) == ArgMin(TournamentScoreRows(d))

\* calculate_winner with a row or none: the players the query may return
calculate_winner(d) == ArgMax(TournamentScoreRows(d))

StatResult(player_id, value, extra_data) ==
  [player_id |-> player_id, value |-> value, extra_data |-> extra_data]

NoExtra == <<>>

\* the race_scores CTE: player_race_scores of the tournament's matches
RaceScoreRows(d) == {k \in DOMAIN d.race_scores : Has(d.race_scores[k])}

\* the player_swings CTE
PlayerSwings(d) ==
  [q \in {k[3] : k \in RaceScoreRows(d)} |->
     LET afters == {Val(d.race_scores[k]).tournament_elo_after :
                      k \in {o \in RaceScoreRows(d) : o[3] = q}}
     IN  [swing_delta |-> SetMax(afters) - SetMin(afters),
          high_point |-> SetMax(afters),
          low_point |-> SetMin(afters)]]

\* calculate_race_stats: the rows of the query by stat_type.  Where rows tie
\* in the ORDER BY, LIMIT 1 may return any of them: the model keeps the set
\* of the rows it may return
calculate_race_stats(d) ==
  LET change == [k \in RaceScoreRows(d) |-> Val(d.race_scores[k]).tournament_elo_change]
      swings == PlayerSwings(d)
      delta == [q \in DOMAIN swings |-> swings[q].swing_delta]
  IN  [t \in {x \in RaceStatTypes : RaceScoreRows(d) # {}} |->
         CASE t = "best_race" ->
                {StatResult(k[3], change[k], NoExtra) : k \in ArgMax(change)}
           [] t = "worst_race" ->
                {StatResult(k[3], change[k], NoExtra) : k \in ArgMin(change)}
           [] OTHER ->
                {StatResult(q, delta[q], [high_value |-> swings[q].high_point,
                                          low_value |-> swings[q].low_point]) :
                   q \in ArgMax(delta)}]

\* the contributions CTE
ContributionRows(d) == {k \in DOMAIN d.contributions : Has(d.contributions[k])}

\* the source_aggregates CTE
SourceAggregates(d) ==
  [q \in {k[3] : k \in ContributionRows(d)} |->
     SumOver([k \in {o \in ContributionRows(d) : o[3] = q} |->
                Val(d.contributions[k]).contribution_amount],
             {o \in ContributionRows(d) : o[3] = q})]

\* the beneficiary_aggregates CTE
BeneficiaryAggregates(d) ==
  [q \in {k[4] : k \in ContributionRows(d)} |->
     SumOver([k \in {o \in ContributionRows(d) : o[4] = q} |->
                Val(d.contributions[k]).contribution_amount],
             {o \in ContributionRows(d) : o[4] = q})]

\* calculate_contribution_stats: the rows of the query by stat_type
calculate_contribution_stats(d) ==
  LET given == SourceAggregates(d)
      received == BeneficiaryAggregates(d)
  IN  [t \in {x \in ContributionStatTypes : ContributionRows(d) # {}} |->
         CASE t = "best_teammate" ->
                {StatResult(q, given[q], NoExtra) : q \in ArgMax(given)}
           [] t = "worst_teammate" ->
                {StatResult(q, given[q], NoExtra) : q \in ArgMin(given)}
           [] t = "most_helped" ->
                {StatResult(q, received[q], NoExtra) : q \in ArgMax(received)}
           [] OTHER ->
                {StatResult(q, received[q], NoExtra) : q \in ArgMin(received)}]

\* the tournament_match_scores CTE
MatchScoreRows(d) ==
  [k \in {o \in DOMAIN d.pms : Has(d.pms[o])} |-> Val(d.pms[k]).tournament_elo_change]

\* calculate_match_stats: the rows of the query by stat_type
calculate_match_stats(d) ==
  LET change == MatchScoreRows(d)
  IN  [t \in {x \in MatchStatTypes : DOMAIN change # {}} |->
         CASE t = "best_match" ->
                {StatResult(k[2], change[k], NoExtra) : k \in ArgMax(change)}
           [] OTHER ->
                {StatResult(k[2], change[k], NoExtra) : k \in ArgMin(change)}]

\* UPDATE tournaments SET winner = $1 WHERE id = $2
set_winner(d, tournament_id, winner_id) ==
  [d EXCEPT !.tournaments =
     [t \in DOMAIN @ |->
        IF t = tournament_id /\ Has(@[t])
        THEN Row([Val(@[t]) EXCEPT !.winner = winner_id]) ELSE @[t]]]

\* TournamentStat::insert_batch: the rows one call inserts are kept under the
\* inserting request; the table has no key the insert could violate
insert_batch(d, tournament_id, p, stats) ==
  IF DOMAIN stats = {} THEN d
  ELSE [d EXCEPT !.tournament_stats =
          [k \in DOMAIN @ |-> IF k = <<tournament_id, p>> THEN Row(stats) ELSE @[k]]]

\* the winner check with the test dropped
already_completed_never(tournament) == FALSE

\* 29: tournament.winner.is_some()
already_completed(tournament) == tournament.winner # NilId

\* the request arrives
CallComplete(p, tournament_id, group_id) ==
  /\ proc[p].pc = "idle"
  /\ proc' = [proc EXCEPT ![p] =
                [pc |-> "find_tournament",
                 call |-> [NoCall EXCEPT !.tournament_id = tournament_id,
                                         !.group_id = group_id],
                 outcome |-> "none", loc |-> Locals0]]
  /\ UNCHANGED <<db, priv, locks, ghost>>

\* 19-33: find_by_id on the pool, the group check and the winner check
FindTournament(p) ==
  /\ proc[p].pc = "find_tournament"
  /\ LET tournament == find_by_id(db, proc[p].call.tournament_id)
     IN  IF ~Has(tournament) THEN Finished(p, "not_found")
         ELSE IF Val(tournament).group_id # proc[p].call.group_id
              THEN Finished(p, "unauthorized")
         ELSE IF already_completed(Val(tournament)) THEN Finished(p, "validation")
         ELSE /\ Goto(p, "calculate_winner", proc[p].loc)
              /\ UNCHANGED <<locks, priv>>
  /\ UNCHANGED <<db, ghost>>

\* 35-40: begin, calculate_winner
CalculateWinner(p) ==
  /\ proc[p].pc = "calculate_winner"
  /\ IF calculate_winner(View(p)) = {} THEN Finished(p, "validation")
     ELSE /\ \E winner_id \in calculate_winner(View(p)) :
               Goto(p, "race_stats", [proc[p].loc EXCEPT !.winner_id = winner_id])
          /\ UNCHANGED <<locks, priv>>
  /\ UNCHANGED <<db, ghost>>

\* 92: calculate_race_stats, an error when it has fewer than three rows
CalculateRaceStats(p) ==
  /\ proc[p].pc = "race_stats"
  /\ LET rows == calculate_race_stats(View(p))
     IN  IF Cardinality(DOMAIN rows) < 3 THEN Finished(p, "validation")
         ELSE /\ Goto(p, "contribution_stats", [proc[p].loc EXCEPT !.stats = rows])
              /\ UNCHANGED <<locks, priv>>
  /\ UNCHANGED <<db, ghost>>

\* 93: calculate_contribution_stats, an error when it has fewer than four
\* rows
CalculateContributionStats(p) ==
  /\ proc[p].pc = "contribution_stats"
  /\ LET rows == calculate_contribution_stats(View(p))
     IN  IF Cardinality(DOMAIN rows) < 4 THEN Finished(p, "validation")
         ELSE /\ Goto(p, "match_stats", [proc[p].loc EXCEPT !.stats = @ @@ rows])
              /\ UNCHANGED <<locks, priv>>
  /\ UNCHANGED <<db, ghost>>

\* 94-96: calculate_match_stats, an error when it has fewer than two rows,
\* and the concatenation
CalculateMatchStats(p) ==
  /\ proc[p].pc = "match_stats"
  /\ LET rows == calculate_match_stats(View(p))
     IN  IF Cardinality(DOMAIN rows) < 2 THEN Finished(p, "validation")
         ELSE /\ Goto(p, "set_winner", [proc[p].loc EXCEPT !.stats = @ @@ rows])
              /\ UNCHANGED <<locks, priv>>
  /\ UNCHANGED <<db, ghost>>

\* 43: Tournament::set_winner; the UPDATE waits for a transaction that has
\* locked the row and then writes the row that transaction committed
SetWinner(p) ==
  /\ proc[p].pc = "set_winner"
  /\ \E needs \in {Rows("tournaments", {proc[p].call.tournament_id})} :
       /\ Free(p, needs)
       /\ TxWrite(p, needs, set_winner(View(p), proc[p].call.tournament_id,
                                       proc[p].loc.winner_id))
  /\ Goto(p, "insert_stats", proc[p].loc)
  /\ UNCHANGED <<db, ghost>>

\* 45-58: TournamentStat::insert_batch
InsertStats(p) ==
  /\ proc[p].pc = "insert_stats"
  /\ TxWrite(p, NoLocks, insert_batch(View(p), proc[p].call.tournament_id, p,
                                      proc[p].loc.stats))
  /\ Goto(p, "commit_tournament", proc[p].loc)
  /\ UNCHANGED <<db, ghost>>

\* 60-64: commit
CommitTournament(p) ==
  /\ proc[p].pc = "commit_tournament"
  /\ db' = View(p)
  /\ Finished(p, "ok")
  /\ UNCHANGED ghost

\* a failing statement of complete_tournament that leaves the writes of its
\* transaction in place
CompletionFaultKeepsWrites(p) ==
  /\ proc[p].pc \in CompletionInFlight
  /\ db' = View(p)
  /\ Finished(p, "internal")
  /\ ghost' = [ghost EXCEPT !.faulted[p] = TRUE]

\* a statement of complete_tournament or its commit fails in the storage
\* layer: the request ends with an internal error, the transaction is
\* rolled back
CompletionFault(p) ==
  /\ proc[p].pc \in CompletionInFlight
  /\ Finished(p, "internal")
  /\ ghost' = [ghost EXCEPT !.faulted[p] = TRUE]
  /\ UNCHANGED db

\* a match of the three players with two teams and two rounds, client p1
\* recording its rounds, and both clients closing the tournament at any
\* moment, on a storage layer that may fail during complete_tournament
NextTournament ==
  \/ \E m \in MatchIds, ids \in TournamentRosters :
       CreateMatch(m, ids, MaxRounds, 2)
  \/ /\ proc["p1"].pc = "idle"
     /\ \E m \in MatchIds, r \in RoundNums, res \in WellFormedResults :
          Scheduled(m, r, res) /\ Call("p1", m, r, res)
  \/ \E p \in Procs : Return(p)
  \/ FindMatch("p1")
  \/ FindRound("p1")
  \/ ValidatePlayers("p1")
  \/ FindPlayers("p1")
  \/ ComputeEloChanges("p1")
  \/ InsertRaceScores("p1")
  \/ InsertContributions("p1")
  \/ UpdateBeneficiaries("p1")
  \/ UpdatePlayers("p1")
  \/ UpdateTournamentElos("p1")
  \/ UpdateMatchAggregates("p1")
  \/ MarkRoundCompleted("p1")
  \/ CompleteMatchIfAllRounds("p1")
  \/ Commit("p1")
  \/ \E p \in Procs, t \in InputTournamentIds, g \in InputGroupIds :
       CallComplete(p, t, g)
  \/ \E p \in Procs : FindTournament(p)
  \/ \E p \in Procs : CalculateWinner(p)
  \/ \E p \in Procs : CalculateRaceStats(p)
  \/ \E p \in Procs : CalculateContributionStats(p)
  \/ \E p \in Procs : CalculateMatchStats(p)
  \/ \E p \in Procs : SetWinner(p)
  \/ \E p \in Procs : InsertStats(p)
  \/ \E p \in Procs : CommitTournament(p)
  \/ \E p \in Procs : CompletionFault(p)

SpecTournament == Init /\ [][NextTournament]_vars

(***************************************************************************)
(* create_match_with_rounds (services/match_service.rs) as a request of a  *)
(* client: validation, the reads, the three allocators, one transaction,   *)
(* and the notification after the commit                                   *)
(***************************************************************************)
\* the ids the database gives to new matches, in creation order
MatchOrder == <<"m1", "m2", "m3">>

CreateMatchIds == Range(MatchOrder)

\* largest round count a create_match request asks for when the catalog
\* may be smaller than the request
MaxDraw == MaxRounds + 1

\* round counts a create_match request may carry
InputNumRaces == 0..MaxDraw

\* the catalogs the tracks table may hold
InputCatalogs == {TrackCatalog, TrackIds}

\* the roster of the matches that follow one another in a tournament
SequelRoster == <<"a", "b">>

CreateInFlight == {"validate_create", "create_find_players", "allocate_teams",
                   "select_tracks", "allocate_races", "insert_match",
                   "commit_create", "notify"}

\* the id of the next match row (gen_random_uuid: an id not yet in use)
NewMatchId(d) ==
  MatchOrder[CHOOSE i \in 1..Len(MatchOrder) :
               /\ ~Has(d.matches[MatchOrder[i]])
               /\ \A j \in 1..(i - 1) : Has(d.matches[MatchOrder[j]])]

\* the notification of a created match (round_number 0)
MatchCreated(m) ==
  [match_id |-> m, tournament_id |-> TournamentId, round_number |-> 0,
   group_id |-> GroupId]

InitCreate ==
  /\ \E elos \in InitialElos, catalog \in InputCatalogs :
       db = [EmptyDbOf(CreateMatchIds, 1..MaxDraw) EXCEPT
               !.players = [p \in Players |-> Row(elos[p])],
               !.tournaments = [t \in {TournamentId} |->
                                  Row([group_id |-> GroupId, winner |-> NilId])],
               !.tracks = [k \in TrackIds |->
                             IF k \in catalog THEN Row(k) ELSE NoRow]]
  /\ priv = [p \in Procs |-> EmptyDb]
  /\ locks = [p \in Procs |-> NoLocks]
  /\ proc = [p \in Procs |-> Idle]
  /\ ghost = Ghost0

\* the request arrives
CallCreate(p, player_ids, num_races, players_per_race) ==
  /\ proc[p].pc = "idle"
  /\ \E m \in DOMAIN db.matches : ~Has(db.matches[m])
  /\ proc' = [proc EXCEPT ![p] =
                [pc |-> "validate_create",
                 call |-> [NoCall EXCEPT !.op = "create_match",
                                         !.player_ids = player_ids,
                                         !.num_races = num_races,
                                         !.players_per_race = players_per_race],
                 outcome |-> "none", loc |-> Locals0]]
  /\ UNCHANGED <<db, priv, locks, ghost>>

\* validate_create_match_inputs (match_service.rs 137)
ValidateCreate(p) ==
  /\ proc[p].pc = "validate_create"
  /\ IF validate_create_match_inputs(proc[p].call.player_ids, proc[p].call.num_races,
                                     proc[p].call.players_per_race)
     THEN Goto(p, "create_find_players", proc[p].loc) /\ UNCHANGED <<priv, locks>>
     ELSE Finished(p, "validation")
  /\ UNCHANGED <<db, ghost>>

\* Player::find_by_ids and the length check (match_service.rs 139-145)
CreateFindPlayers(p) ==
  /\ proc[p].pc = "create_find_players"
  /\ LET players == find_by_ids(db, proc[p].call.player_ids)
     IN  IF Len(players) # Len(proc[p].call.player_ids)
         THEN Finished(p, "not_found")
         ELSE /\ Goto(p, "allocate_teams", [proc[p].loc EXCEPT !.players = players])
              /\ UNCHANGED <<priv, locks>>
  /\ UNCHANGED <<db, ghost>>

\* team_allocation::allocate_teams (match_service.rs 147)
AllocateTeams(p) ==
  /\ proc[p].pc = "allocate_teams"
  /\ Goto(p, "select_tracks",
          [proc[p].loc EXCEPT
             !.teams = allocate_teams(proc[p].loc.players,
                                      proc[p].call.players_per_race,
                                      TournamentEloMap(db, Players))])
  /\ UNCHANGED <<db, priv, locks, ghost>>

\* track_selection::select_tracks (match_service.rs 148)
SelectTracks(p) ==
  /\ proc[p].pc = "select_tracks"
  /\ \E tracks \in select_tracks(db, proc[p].call.num_races) :
       Goto(p, "allocate_races", [proc[p].loc EXCEPT !.tracks = tracks])
  /\ UNCHANGED <<db, priv, locks, ghost>>

\* race_allocation::allocate_races (match_service.rs 149-150)
AllocateRaces(p) ==
  /\ proc[p].pc = "allocate_races"
  /\ Goto(p, "insert_match",
          [proc[p].loc EXCEPT
             !.race_allocations = allocate_races(proc[p].loc.teams,
                                                 proc[p].call.num_races)])
  /\ UNCHANGED <<db, priv, locks, ghost>>

\* create_match_in_transaction up to its commit (match_service.rs 210-430)
InsertMatch(p) ==
  /\ proc[p].pc = "insert_match"
  /\ \E m \in {NewMatchId(View(p))} :
       /\ TxWrite(p, NoLocks,
                  create_match_in_transaction(View(p), m, proc[p].call.num_races,
                                              proc[p].loc.teams, proc[p].loc.tracks,
                                              proc[p].loc.race_allocations))
       /\ proc' = [proc EXCEPT ![p] = [@ EXCEPT !.pc = "commit_create",
                                                !.call.match_id = m]]
  /\ UNCHANGED <<db, ghost>>

\* the line-ups are inserted for more rounds than round rows exist: whether
\* the database refuses them depends on the schema
RoundPlayersRefused(p) ==
  /\ proc[p].pc = "insert_match"
  /\ Len(proc[p].loc.race_allocations) > Len(proc[p].loc.tracks)
  /\ Finished(p, "internal")
  /\ UNCHANGED <<db, ghost>>

\* tx.commit (match_service.rs 431)
CommitCreate(p) ==
  /\ proc[p].pc = "commit_create"
  /\ db' = View(p)
  /\ locks' = [locks EXCEPT ![p] = NoLocks]
  /\ priv' = [priv EXCEPT ![p] = EmptyDb]
  /\ Goto(p, "notify", proc[p].loc)
  /\ UNCHANGED ghost

\* CreateFault, with the failed request still sending its notification
CreateFaultNotifies(p) ==
  /\ proc[p].pc \in {"create_find_players", "select_tracks", "insert_match",
                     "commit_create"}
  /\ Finished(p, "internal")
  /\ ghost' = [ghost EXCEPT !.faulted[p] = TRUE,
                            !.channel = @ \cup {MatchCreated(NewMatchId(db))}]
  /\ UNCHANGED db

\* a storage failure at a read, at an insert or at the commit: `?` returns
\* the error and the dropped transaction is rolled back
CreateFault(p) ==
  /\ proc[p].pc \in {"create_find_players", "select_tracks", "insert_match",
                     "commit_create"}
  /\ Finished(p, "internal")
  /\ ghost' = [ghost EXCEPT !.faulted[p] = TRUE]
  /\ UNCHANGED db

\* NotificationManager::notify: the send fails when nobody is subscribed,
\* which is logged; the request returns the match either way
Notify(p) ==
  /\ proc[p].pc = "notify"
  /\ \E receivers \in BOOLEAN :
       ghost' = [ghost EXCEPT
                   !.channel = IF receivers
                               THEN @ \cup {MatchCreated(proc[p].call.match_id)}
                               ELSE @]
  /\ Finished(p, "ok")
  /\ UNCHANGED db

NoMatches(d) == \A m \in DOMAIN d.matches : ~Has(d.matches[m])

\* one client creates the first match of a tournament, with every input
NextCreate ==
  \/ \E ids \in InputPlayerLists, n \in InputNumRaces, k \in InputPlayersPerRace :
       NoMatches(db) /\ CallCreate("p1", ids, n, k)
  \/ ValidateCreate("p1")
  \/ CreateFindPlayers("p1")
  \/ AllocateTeams("p1")
  \/ SelectTracks("p1")
  \/ AllocateRaces("p1")
  \/ InsertMatch("p1")
  \/ RoundPlayersRefused("p1")
  \/ CommitCreate("p1")
  \/ CreateFault("p1")
  \/ Notify("p1")
  \/ Return("p1")

SpecCreate == InitCreate /\ [][NextCreate]_vars

\* one client creates the matches of a tournament one after the other
NextTracks ==
  \/ \E n \in 1..MaxDraw : CallCreate("p1", SequelRoster, n, Len(SequelRoster))
  \/ ValidateCreate("p1")
  \/ CreateFindPlayers("p1")
  \/ AllocateTeams("p1")
  \/ SelectTracks("p1")
  \/ AllocateRaces("p1")
  \/ InsertMatch("p1")
  \/ RoundPlayersRefused("p1")
  \/ CommitCreate("p1")
  \/ Notify("p1")
  \/ Return("p1")

SpecTracks == InitCreate /\ [][NextTracks]_vars

(***************************************************************************)
(* The allocators called on their own, as tests/team_allocation_test.rs    *)
(* calls them: a caller hands players to one of the two team allocators,   *)
(* or teams of its own making to the race scheduler                        *)
(***************************************************************************)
\* the players a caller may pass, in this order
HarnessIds == <<"a", "b", "c", "d", "e">>

\* the all-time ratings they may have
InputRatings == {1100, 1300}

\* largest team count and largest round count a caller asks for
MaxTeams == 5

MaxRaces == 5

\* the lists of the first n players with any ratings
PlayerRecords(n) ==
  {[i \in 1..n |-> [id |-> HarnessIds[i], elo_rating |-> r[i]]] :
     r \in [1..n -> InputRatings]}

\* player lists a caller hands to a team allocator: up to four players
InputPlayerRecords == UNION {PlayerRecords(n) : n \in 1..(Len(HarnessIds) - 1)}

\* tournament ratings: none, all equal, or rising from a to e
InputEloMaps ==
  {[x \in {} |-> 0],
   [x \in Range(HarnessIds) |-> 1200],
   [x \in Range(HarnessIds) |->
      900 + 100 * (CHOOSE i \in 1..Len(HarnessIds) : HarnessIds[i] = x)]}

\* the ways to cut a list of n players into consecutive non-empty teams
RECURSIVE Cuts(_)
Cuts(n) ==
  IF n = 0 THEN {<<>>}
  ELSE UNION {{<<first>> \o rest : rest \in Cuts(n - first)} : first \in 1..n}

\* the sum of the first i entries of sizes
RECURSIVE Offset(_, _)
Offset(sizes, i) == IF i = 0 THEN 0 ELSE sizes[i] + Offset(sizes, i - 1)

\* the players cut into teams of the given sizes
Sliced(players, sizes, get_elo(_)) ==
  [team_idx \in 1..Len(sizes) |->
     LET offset == Offset(sizes, team_idx - 1)
         team_players == [i \in 1..sizes[team_idx] |-> players[offset + i]]
     IN  [team_num |-> team_idx,
          players |-> team_players,
          total_elo |-> SumSeq([i \in 1..Len(team_players) |->
                                  get_elo(team_players[i])])]]

\* teams of a caller's own making
InputTeams ==
  UNION {{Sliced(players, sizes, LAMBDA pl : pl.elo_rating) :
            sizes \in Cuts(Len(players))} :
           players \in UNION {PlayerRecords(n) : n \in 1..Len(HarnessIds)}}

\* every result the shuffle of allocate_teams_randomly can lead to
allocate_teams_randomly(players, players_per_race, elo_ratings) ==
  LET get_elo(player) == IF player.id \in DOMAIN elo_ratings
                         THEN elo_ratings[player.id] ELSE player.elo_rating
      num_players == Len(players)
      num_teams == Min(players_per_race, num_players)
      team_sizes == calculate_team_sizes(num_players, num_teams)
      shuffles == {s \in [1..num_players -> 1..num_players] :
                     \A i, j \in 1..num_players : s[i] = s[j] => i = j}
  IN  {Sliced([i \in 1..num_players |-> players[s[i]]], team_sizes, get_elo) :
         s \in shuffles}

\* a call of allocate_teams
ApplyAllocateTeams(p, players, players_per_race, elo_ratings) ==
  /\ proc[p].pc = "idle"
  /\ proc' = [proc EXCEPT ![p] =
                [pc |-> "teams_allocated",
                 call |-> [NoCall EXCEPT !.op = "allocate_teams",
                                         !.players_per_race = players_per_race],
                 outcome |-> "none",
                 loc |-> [Locals0 EXCEPT
                            !.players = players,
                            !.elo_ratings = elo_ratings,
                            !.teams = allocate_teams(players, players_per_race,
                                                     elo_ratings)]]]
  /\ UNCHANGED <<db, priv, locks, ghost>>

\* a call of allocate_teams_randomly
ApplyAllocateTeamsRandomly(p, players, players_per_race, elo_ratings) ==
  /\ proc[p].pc = "idle"
  /\ \E teams \in allocate_teams_randomly(players, players_per_race, elo_ratings) :
       proc' = [proc EXCEPT ![p] =
                  [pc |-> "teams_allocated",
                   call |-> [NoCall EXCEPT !.op = "allocate_teams_randomly",
                                           !.players_per_race = players_per_race],
                   outcome |-> "none",
                   loc |-> [Locals0 EXCEPT !.players = players,
                                           !.elo_ratings = elo_ratings,
                                           !.teams = teams]]]
  /\ UNCHANGED <<db, priv, locks, ghost>>

\* the caller builds teams itself
GivenTeams(p, teams) ==
  /\ proc[p].pc = "idle"
  /\ proc' = [proc EXCEPT ![p] =
                [pc |-> "teams_allocated",
                 call |-> [NoCall EXCEPT !.op = "teams_given"],
                 outcome |-> "none",
                 loc |-> [Locals0 EXCEPT !.teams = teams]]]
  /\ UNCHANGED <<db, priv, locks, ghost>>

\* a call of allocate_races on the teams at hand
ApplyAllocateRaces(p, num_races) ==
  /\ proc[p].pc = "teams_allocated"
  /\ proc' = [proc EXCEPT ![p] =
                [@ EXCEPT !.pc = "races_allocated",
                          !.call.num_races = num_races,
                          !.loc.race_allocations =
                             allocate_races(proc[p].loc.teams, num_races)]]
  /\ UNCHANGED <<db, priv, locks, ghost>>

\* the caller is done with the result
Discard(p) ==
  /\ proc[p].pc \in {"teams_allocated", "races_allocated"}
  /\ proc' = [proc EXCEPT ![p] = Idle]
  /\ UNCHANGED <<db, priv, locks, ghost>>

NextAllocators ==
  \/ \E players \in InputPlayerRecords, k \in 1..MaxTeams, elos \in InputEloMaps :
       \/ ApplyAllocateTeams("p1", players, k, elos)
       \/ ApplyAllocateTeamsRandomly("p1", players, k, elos)
  \/ \E teams \in InputTeams : GivenTeams("p1", teams)
  \/ \E n \in 1..MaxRaces : ApplyAllocateRaces("p1", n)
  \/ Discard("p1")

SpecAllocators == Init /\ [][NextAllocators]_vars

(***************************************************************************)
(* The rating engine and the contribution calculator called on their own,  *)
(* as tests/elo_test.rs and tests/teammate_elo_test.rs call them           *)
(***************************************************************************)
\* finishing positions the humans of a race may hold
InputRacePositions == {1, 2, 3, 13, 24}

\* ratings they may have
InputRaceRatings == {1000, 1200, 1500}

\* the human results of a race: the first n players, any ratings, pairwise
\* distinct positions
InputHumanResults ==
  UNION {{[i \in 1..n |-> [player_id |-> PlayerOrder[i], position |-> pos[i],
                           current_elo |-> elo[i]]] :
            pos \in {f \in [1..n -> InputRacePositions] :
                       \A i, j \in 1..n : f[i] = f[j] => i = j},
            elo \in [1..n -> InputRaceRatings]} : n \in 1..Len(PlayerOrder)}

\* tournament deltas a racer may have
InputDeltas == {-50, -49, -3, -2, 0, 2, 3, 46, 47, 50}

\* the ways to put the players into teams: player -> team number, the team
\* numbers in use being 1..k
InputTeamMaps ==
  {f \in [Players -> 1..Len(PlayerOrder)] :
     \A t \in 1..Len(PlayerOrder) :
       (\E x \in Players : f[x] = t) => \A u \in 1..t : \E y \in Players : f[y] = u}

\* the racers of a round with their positions, in creation order
InputRacers ==
  {SortedNames(S) : S \in (SUBSET Players) \ {{}}}

\* a call of calculate_elo_changes
ApplyCalculateEloChanges(p, results) ==
  /\ proc[p].pc = "idle"
  /\ proc' = [proc EXCEPT ![p] =
                [pc |-> "elo_calculated",
                 call |-> [NoCall EXCEPT !.op = "calculate_elo_changes"],
                 outcome |-> "none",
                 loc |-> [Locals0 EXCEPT
                            !.human_results = results,
                            !.full_field = create_full_field(results),
                            !.all_time_elo_changes = calculate_elo_changes(results)]]]
  /\ UNCHANGED <<db, priv, locks, ghost>>

\* a call of calculate_teammate_contributions
ApplyCalculateTeammateContributions(p, racers, player_to_team, tournament_elo_changes) ==
  /\ proc[p].pc = "idle"
  /\ LET results == [i \in 1..Len(racers) |-> [player_id |-> racers[i], position |-> i]]
         team_to_players == [t \in {player_to_team[x] : x \in Players} |->
                               {x \in Players : player_to_team[x] = t}]
         out == calculate_teammate_contributions(results, player_to_team,
                                                 team_to_players, tournament_elo_changes)
     IN  proc' = [proc EXCEPT ![p] =
                    [pc |-> "contributions_calculated",
                     call |-> [NoCall EXCEPT !.op = "calculate_teammate_contributions",
                                             !.results = results],
                     outcome |-> "none",
                     loc |-> [Locals0 EXCEPT
                                !.player_to_team = player_to_team,
                                !.tournament_elo_changes = tournament_elo_changes,
                                !.contributions = out.contributions,
                                !.adjustments = out.adjustments]]]
  /\ UNCHANGED <<db, priv, locks, ghost>>

\* the caller is done with the result
DiscardRating(p) ==
  /\ proc[p].pc \in {"elo_calculated", "contributions_calculated"}
  /\ proc' = [proc EXCEPT ![p] = Idle]
  /\ UNCHANGED <<db, priv, locks, ghost>>

NextRating ==
  \/ \E results \in InputHumanResults : ApplyCalculateEloChanges("p1", results)
  \/ \E racers \in InputRacers, teams \in InputTeamMaps :
       \E changes \in [Range(racers) -> InputDeltas] :
         ApplyCalculateTeammateContributions("p1", racers, teams, changes)
  \/ DiscardRating("p1")

SpecRating == Init /\ [][NextRating]_vars

(***************************************************************************)
(* Properties                                                              *)
(***************************************************************************)
Done(p) == proc[p].pc = "done"

\* a transaction of p is open
InTransaction(p) ==
  proc[p].pc \in {"contributions", "beneficiary_update", "update_players",
                  "update_tournament", "aggregates", "mark_round", "check_complete",
                  "commit"}

AllRoundsCompleted(m) == \A k \in MatchRounds(db, m) : Val(db.rounds[k]).completed

BothDoneOverlapped ==
  /\ \A p \in Procs : Done(p)
  /\ ghost.overlap

SameRound(p, q) ==
  /\ proc[p].call.match_id = proc[q].call.match_id
  /\ proc[p].call.round_number = proc[q].call.round_number

\* C1: with no transaction open, a match is completed exactly when every one
\* of its rounds is completed
C1_CompletedIffAllRounds ==
  (\A p \in Procs : ~InTransaction(p)) =>
    \A m \in MatchIds :
      Has(db.matches[m]) => (Val(db.matches[m]).completed <=> AllRoundsCompleted(m))

\* two overlapping requests for the two rounds of a match have both
\* committed and the match is completed
C1_Witness ==
  /\ BothDoneOverlapped
  /\ \A p \in Procs : proc[p].outcome = "ok"
  /\ ~SameRound("p1", "p2")
  /\ \E m \in MatchIds : Has(db.matches[m]) /\ Val(db.matches[m]).completed

\* C2: of two overlapping requests for the same round, both of which arrived
\* before the round was scored, one succeeds and the other fails with the
\* already-completed conflict and has written nothing
C2_SameRoundOneWinner ==
  (/\ BothDoneOverlapped
   /\ SameRound("p1", "p2")
   /\ \A p \in Procs : ~ghost.start_scored[p])
  => \E p \in Procs : \E q \in Procs \ {p} :
       /\ proc[p].outcome = "ok"
       /\ proc[q].outcome = "conflict"
       /\ ~ghost.wrote[q]

\* C3: a request that has failed has changed nothing in the committed state
C3_FailureChangesNothing ==
  \A p \in Procs : (Done(p) /\ proc[p].outcome # "ok") => ~ghost.wrote[p]

\* C4: the completion step (team scores, match completed) is carried out at
\* most once for a match, open transactions included
C4_CompletionAtMostOnce ==
  \A m \in MatchIds :
    ghost.completions[m]
    + Cardinality({p \in Procs : /\ proc[p].pc \in InFlight
                                 /\ proc[p].call.match_id = m
                                 /\ proc[p].loc.completes}) <= 1

\* two overlapping requests for different rounds have both committed, and
\* one commit carried the completion step
C4_Witness ==
  /\ BothDoneOverlapped
  /\ \A p \in Procs : proc[p].outcome = "ok"
  /\ proc["p1"].call.round_number # proc["p2"].call.round_number
  /\ ghost.completions[proc["p1"].call.match_id] = 1

\* the value x with its rows worked out
Settled(x) == IF x = x THEN x ELSE x

\* record_round_results run alone on d: the database it commits
RecordAlone(d, c) ==
  LET results == c.results
      m == c.match_id
      r == c.round_number
      ids == ResultPlayers(results)
      d0 == Settled(get_or_create_batch(d, ids))
      changes == Settled(Val(ladder_elo_changes(results, create_player_elo_map(d, ids),
                                                TournamentEloMap(d0, ids))))
      d1 == Settled(insert_race_scores(d0, m, r, results, changes.all_time,
                                       changes.tournament))
      contribs == Settled(TeammateContributions(d1, m, results, changes.tournament))
      beneficiary_ids == DOMAIN contribs.adjustments
      d2 == Settled(get_or_create_batch(
                      insert_contributions_batch(d1, m, r, contribs.contributions),
                      beneficiary_ids))
      d3 == IF Len(contribs.contributions) = 0 THEN d1
            ELSE Settled(update_elo_batch(d2, BeneficiaryUpdates(
                                                contribs.adjustments, changes.tournament,
                                                TournamentEloMap(d2, beneficiary_ids))))
      d4 == Settled(update_players(d3, changes.all_time))
      d5 == Settled(update_elo_batch(d4, TournamentUpdates(changes.tournament,
                                                           beneficiary_ids)))
      d6 == Settled(update_player_match_scores(
                      d5, m, calculate_player_match_aggregates(d5, m, r, changes.all_time,
                                                               changes.tournament)))
      d7 == Settled(mark_round_completed(d6, m, r))
  IN  IF check_all_rounds_completed(d7, m)
      THEN complete_match(calculate_and_store_team_scores(d7, m), m)
      ELSE d7

\* the requests calls[order[1]], calls[order[2]], ... run one after the other
RECURSIVE RecordInOrder(_, _, _)
RecordInOrder(d, calls, order) ==
  IF order = <<>> THEN d
  ELSE RecordInOrder(RecordAlone(d, calls[Head(order)]), calls, Tail(order))

Orders(n) == {f \in [1..n -> 1..n] : \A i, j \in 1..n : f[i] = f[j] => i = j}

\* every player's all-time rating and tournament rating (1200 before the
\* row exists)
Ratings(d) ==
  [p \in Players |->
     [all_time |-> d.players[p],
      tournament |-> IF Has(d.pts[p]) THEN Val(d.pts[p]) ELSE STARTING_TOURNAMENT_ELO]]

\* C5: once requests for different rounds of a match have committed, every
\* rating is what running them one after the other, in some order, gives
C5_RatingsSerializable ==
  Len(ghost.hist) >= 2 =>
    \E order \in Orders(Len(ghost.hist)) :
      Ratings(db) = Ratings(RecordInOrder(ghost.base, ghost.hist, order))

\* C6: a well-formed request for a round that was completed when it arrived
\* ends with the conflict error unless the storage layer fails, and in no
\* case changes the committed state
C6_RerecordRejected ==
  \A p \in Procs :
    (Done(p) /\ ghost.start_scored[p] /\ validate_results(proc[p].call.results))
    => /\ ~ghost.wrote[p]
       /\ proc[p].outcome # "ok"
       /\ ~ghost.faulted[p] => proc[p].outcome = "conflict"

\* a second request for a scored round of a match that is still open has
\* been refused with the conflict error
C6_Witness ==
  \E p \in Procs :
    /\ Done(p)
    /\ ghost.start_scored[p]
    /\ proc[p].outcome = "conflict"
    /\ ~Val(db.matches[proc[p].call.match_id]).completed

SubmittedSet(p) == ResultPlayers(proc[p].call.results)

LineupSet(p) ==
  Range(get_round_players(db, proc[p].call.match_id, proc[p].call.round_number))

\* C7: a request whose set of player ids is not the set of the round's
\* lineup does not succeed and changes nothing
C7_PlayerSetMustMatch ==
  \A p \in Procs :
    (Done(p) /\ SubmittedSet(p) # LineupSet(p))
    => (proc[p].outcome # "ok" /\ ~ghost.wrote[p])

\* a well-formed request for an open round that leaves out a player of the
\* lineup has been refused by the player check
C7_Witness ==
  \E p \in Procs :
    /\ Done(p)
    /\ proc[p].outcome = "validation"
    /\ validate_results(proc[p].call.results)
    /\ SubmittedSet(p) # {}
    /\ SubmittedSet(p) \subseteq LineupSet(p)
    /\ SubmittedSet(p) # LineupSet(p)

EmptyList(results) == Len(results) = 0

PositionOutOfRange(results) ==
  \E i \in 1..Len(results) : results[i].position < 1 \/ results[i].position > 24

SharedPosition(results) ==
  \E i, j \in 1..Len(results) : i # j /\ results[i].position = results[j].position

\* C8: a request with an empty result list, a position outside 1..24 or two
\* results with the same position ends with a validation error and changes
\* nothing
C8_MalformedRejected ==
  \A p \in Procs :
    (/\ Done(p)
     /\ \/ EmptyList(proc[p].call.results)
        \/ PositionOutOfRange(proc[p].call.results)
        \/ SharedPosition(proc[p].call.results))
    => (proc[p].outcome = "validation" /\ ~ghost.wrote[p])

\* a request that names exactly the lineup of an open round, with positions
\* in range but two of them equal, has been refused
C8_Witness ==
  \E p \in Procs :
    /\ Done(p)
    /\ proc[p].outcome = "validation"
    /\ SharedPosition(proc[p].call.results)
    /\ ~PositionOutOfRange(proc[p].call.results)
    /\ SubmittedSet(p) = LineupSet(p)

\* C9: a completed round stays a completed round and a completed match
\* stays a completed match
C9_CompletedIsOneWay ==
  [][/\ \A k \in DOMAIN db.rounds :
          (Has(db.rounds[k]) /\ Val(db.rounds[k]).completed)
          => (Has(db'.rounds[k]) /\ Val(db'.rounds[k]).completed)
     /\ \A m \in MatchIds :
          (Has(db.matches[m]) /\ Val(db.matches[m]).completed)
          => (Has(db'.matches[m]) /\ Val(db'.matches[m]).completed)]_vars

\* a request is being handled after its match was completed
C9_Witness ==
  \E p \in Procs :
    /\ proc[p].pc \in InFlight
    /\ Has(db.matches[proc[p].call.match_id])
    /\ Val(db.matches[proc[p].call.match_id]).completed

\* rating maps to compare a request's computation against
OtherRatings ==
  {[p \in Players |-> 1200],
   [p \in Players |-> CASE p = "a" -> 1000 [] p = "b" -> 1500 [] OTHER -> 1250]}

\* C10: the all-time changes a request computes are those it would compute
\* with any other tournament ratings, and its tournament changes are those
\* it would compute with any other all-time ratings
C10_LaddersIndependent ==
  \A p \in Procs :
    proc[p].pc = "insert_scores" =>
      \A other \in OtherRatings :
        LET results == proc[p].call.results
            l == proc[p].loc
            swapped(elos) == [q \in DOMAIN elos |-> other[q]]
        IN  /\ Val(ladder_elo_changes(results, l.all_time_elos,
                                      swapped(l.tournament_elos))).all_time
               = l.all_time_elo_changes
            /\ Val(ladder_elo_changes(results, swapped(l.all_time_elos),
                                      l.tournament_elos)).tournament
               = l.tournament_elo_changes

\* a request has computed its changes from two ladders that disagree
C10_Witness ==
  \E p \in Procs :
    /\ proc[p].pc = "insert_scores"
    /\ proc[p].loc.all_time_elos # proc[p].loc.tournament_elos
    /\ proc[p].loc.all_time_elo_changes # proc[p].loc.tournament_elo_changes

\* the request of p commits in this step
CommitsOk(p) == proc[p].pc = "commit" /\ proc'[p].pc = "done" /\ proc'[p].outcome = "ok"

\* the tournament delta of the race-score row of q in round r of match m
OwnTournamentDelta(d, m, r, q) ==
  IF Has(d.race_scores[<<m, r, q>>])
  THEN Val(d.race_scores[<<m, r, q>>]).tournament_elo_change ELSE 0

\* the sum of the contribution rows of round r of match m with beneficiary q
ContributionsReceivedIn(d, m, r, q) ==
  LET keys == {k \in DOMAIN d.contributions :
                 k[1] = m /\ k[2] = r /\ k[4] = q /\ Has(d.contributions[k])}
  IN  SumOver([k \in keys |-> Val(d.contributions[k]).contribution_amount], keys)

\* C11: the commit of a recorded round takes every player's tournament
\* rating from its value before to that value plus the player's own
\* tournament delta of the round plus the contributions the player received
\* in the round
C11_TournamentRatingAfterRound ==
  [][\A p \in Procs :
       CommitsOk(p) =>
         \A q \in Players :
           Ratings(db')[q].tournament
           = Ratings(db)[q].tournament
             + OwnTournamentDelta(db', proc[p].call.match_id, proc[p].call.round_number, q)
             + ContributionsReceivedIn(db', proc[p].call.match_id,
                                       proc[p].call.round_number, q)]_vars

\* p fetches or creates the tournament ratings of its racers in this step
FetchesTournamentElos(p) ==
  proc[p].pc = "tournament_elos" /\ proc'[p].pc = "insert_scores"

\* C12: a fetch-or-create leaves a player's stored tournament rating as it
\* is and returns it; a missing row is created with 1200 whatever the
\* player's all-time rating; the rows of the other players are untouched
C12_CreatedAt1200NeverReset ==
  [][\A p \in Procs :
       FetchesTournamentElos(p) =>
         \A q \in Players :
           IF q \in ResultPlayers(proc[p].call.results)
           THEN /\ db'.pts[q] = Row(IF Has(db.pts[q]) THEN Val(db.pts[q]) ELSE 1200)
                /\ proc'[p].loc.tournament_elos[q] = Val(db'.pts[q])
           ELSE db'.pts[q] = db.pts[q]]_vars

\* a request has fetched a stored tournament rating that is neither 1200
\* nor the player's all-time rating
C12_Witness ==
  \E p \in Procs : \E q \in DOMAIN proc[p].loc.tournament_elos :
    /\ proc[p].pc = "insert_scores"
    /\ proc[p].loc.tournament_elos[q] # 1200
    /\ proc[p].loc.tournament_elos[q] # proc[p].loc.all_time_elos[q]

\* the players with a race-score row in round r of match m
RaceScorePlayers(d, m, r) == {q \in Players : Has(d.race_scores[<<m, r, q>>])}

\* C13: the race-score rows of a completed round are one for each player of
\* its lineup and no other; a round that is not completed, or does not
\* exist, has none
C13_RaceScoresMatchLineup ==
  \A k \in DOMAIN db.rounds :
    RaceScorePlayers(db, k[1], k[2])
    = IF Has(db.rounds[k]) /\ Val(db.rounds[k]).completed
      THEN Range(get_round_players(db, k[1], k[2]))
      ELSE {}

\* one round of a match is completed with a lineup of two players, another
\* round of the match is not
C13_Witness ==
  \E k \in DOMAIN db.rounds : \E j \in DOMAIN db.rounds :
    /\ k[1] = j[1]
    /\ Has(db.rounds[k]) /\ Val(db.rounds[k]).completed
    /\ Cardinality(RaceScorePlayers(db, k[1], k[2])) = 2
    /\ Has(db.rounds[j]) /\ ~Val(db.rounds[j]).completed

\* the race-score rows of player q in match m
PlayerRaceRows(d, m, q) ==
  {k \in DOMAIN d.race_scores : k[1] = m /\ k[3] = q /\ Has(d.race_scores[k])}

\* the contribution rows of match m with beneficiary q
ReceivedRows(d, m, q) ==
  {k \in DOMAIN d.contributions : k[1] = m /\ k[4] = q /\ Has(d.contributions[k])}

\* the aggregate of q in m carries the sums of the race-score deltas of q
AggregateMatchesRaceRows(d, m, q) ==
  LET rows == PlayerRaceRows(d, m, q)
      agg == Val(d.pms[<<m, q>>])
  IN  /\ agg.elo_change
         = SumOver([k \in rows |-> Val(d.race_scores[k]).all_time_elo_change], rows)
      /\ agg.tournament_elo_from_races
         = SumOver([k \in rows |-> Val(d.race_scores[k]).tournament_elo_change], rows)

\* the aggregate of q in m carries the sum of the contributions q received
AggregateMatchesContributions(d, m, q) ==
  LET rows == ReceivedRows(d, m, q)
  IN  Val(d.pms[<<m, q>>]).tournament_elo_from_contributions
      = SumOver([k \in rows |-> Val(d.contributions[k]).contribution_amount], rows)

\* C14: every match aggregate equals the per-round records: its all-time
\* delta and its from-races tournament delta are the sums over the player's
\* race-score rows of the match, its from-contributions delta is the sum of
\* the contributions the player received in the match
C14_AggregatesMatchRecords ==
  \A k \in DOMAIN db.pms :
    Has(db.pms[k]) =>
      /\ AggregateMatchesRaceRows(db, k[1], k[2])
      /\ AggregateMatchesContributions(db, k[1], k[2])

\* points for finishing places 1 to 12
PlacePoints == <<15, 12, 10, 9, 8, 7, 6, 5, 4, 3, 2, 1>>

\* the members of team t of match m, from the stored teams
TeamMembers(d, m, t) ==
  IF Has(d.teams[m]) /\ t \in 1..Len(Val(d.teams[m]))
  THEN Range(Val(d.teams[m])[t].players) ELSE {}

\* the match's race results of the members of team t
TeamRaceRows(d, m, t) ==
  {k \in DOMAIN d.race_scores :
     k[1] = m /\ Has(d.race_scores[k]) /\ k[3] \in TeamMembers(d, m, t)}

\* the points of the finishing places of team t in match m
TeamPoints(d, m, t) ==
  SumOver([k \in TeamRaceRows(d, m, t) |->
             LET pos == Val(d.race_scores[k]).position
             IN  IF pos \in 1..Len(PlacePoints) THEN PlacePoints[pos] ELSE 0],
          TeamRaceRows(d, m, t))

CompletedMatches(d) == {m \in DOMAIN d.matches : Has(d.matches[m]) /\ Val(d.matches[m]).completed}

MatchTeams(d, m) == {t \in TeamNums : TeamMembers(d, m, t) # {}}

\* C15 as stated: at completion every stored team score, the integer
\* teams.score included, is exactly the points of the team's finishing
\* places divided by the match's number of rounds
C15_StoredScoreIsExactAverage ==
  \A m \in CompletedMatches(db) : \A t \in MatchTeams(db, m) :
    /\ Has(db.team_scores[<<m, t>>])
    /\ Val(db.team_scores[<<m, t>>]).total = TeamPoints(db, m, t)
    /\ Val(db.team_scores[<<m, t>>]).num_rounds = Cardinality(MatchRounds(db, m))
    /\ Val(db.team_scores[<<m, t>>]).score * Cardinality(MatchRounds(db, m))
         = TeamPoints(db, m, t)

\* C15 amended: at completion team_match_scores.score of every team is the
\* points of the team's finishing places (15, 12, 10, 9, ... 1 for places
\* 1 to 12) divided by the match's number of rounds, and teams.score is that
\* average rounded to the nearest integer, halves away from zero
C15_TeamScoreIsAverage ==
  \A m \in CompletedMatches(db) : \A t \in MatchTeams(db, m) :
    /\ Has(db.team_scores[<<m, t>>])
    /\ Val(db.team_scores[<<m, t>>]).total = TeamPoints(db, m, t)
    /\ Val(db.team_scores[<<m, t>>]).num_rounds = Cardinality(MatchRounds(db, m))
    /\ Val(db.team_scores[<<m, t>>]).score
         = RoundDiv(TeamPoints(db, m, t), Cardinality(MatchRounds(db, m)))

\* a completed two-round match with a team whose places were first and second
C15_Witness ==
  \E m \in CompletedMatches(db) : \E t \in MatchTeams(db, m) :
    /\ Cardinality(MatchRounds(db, m)) = 2
    /\ Has(db.team_scores[<<m, t>>])
    /\ Val(db.team_scores[<<m, t>>]).total = 27
    /\ Val(db.team_scores[<<m, t>>]).score = 14

\* C16: a team has a stored score only if its match is completed and no
\* round of the match is unscored, in the committed state and in the state
\* every open transaction sees
C16_TeamScoreOnlyWhenCompleted ==
  \A d \in {db} \cup {View(p) : p \in DOMAIN proc} :
    \A k \in DOMAIN d.team_scores :
      Has(d.team_scores[k]) =>
        /\ k[1] \in CompletedMatches(d)
        /\ \A r \in MatchRounds(d, k[1]) : Val(d.rounds[r]).completed

\* every team of a completed two-round match has a stored score
C16_Witness ==
  \E m \in CompletedMatches(db) :
    /\ Cardinality(MatchRounds(db, m)) = 2
    /\ Cardinality(MatchTeams(db, m)) = 2
    /\ \A t \in MatchTeams(db, m) : Has(db.team_scores[<<m, t>>])

\* the winner stored for the tournament in d
Winner(d) == Val(d.tournaments[TournamentId]).winner

\* the requests whose statistics rows d holds
StatBatches(d) == {p \in Procs : Has(d.tournament_stats[<<TournamentId, p>>])}

\* the transaction of a complete_tournament request of p commits
CommitsTournament(p) ==
  /\ proc[p].pc = "commit_tournament"
  /\ proc'[p].pc = "done"
  /\ proc'[p].outcome = "ok"

\* C17: the winner is set at most once: a complete_tournament call that
\* writes the winner and the statistics does so on a tournament that has
\* neither, whatever the interleaving of the calls
C17_WinnerSetAtMostOnce ==
  [][\A p \in Procs :
       CommitsTournament(p) => Winner(db) = NilId /\ StatBatches(db) = {}]_vars

\* the request of p names the tournament and its group
OwnTournamentCall(p) ==
  /\ proc[p].call.tournament_id = TournamentId
  /\ proc[p].call.group_id = GroupId

\* p's complete_tournament reads the tournament and finds it closed
FindsTournamentClosed(p) ==
  /\ proc[p].pc = "find_tournament"
  /\ proc'[p] # proc[p]
  /\ OwnTournamentCall(p)
  /\ Winner(db) # NilId

\* C18: a complete_tournament call on a tournament that already has a winner
\* fails, and leaves the stored winner and the stored statistics rows as
\* they were
C18_ClosedTournamentRefused ==
  [][\A p \in Procs :
       FindsTournamentClosed(p) =>
         /\ proc'[p].pc = "done"
         /\ proc'[p].outcome \in {"validation", "internal"}
         /\ ghost'.faulted[p] \/ proc'[p].outcome = "validation"
         /\ db' = db
         /\ locks'[p] = NoLocks]_vars

\* a second call on a closed tournament has been refused; the winner and
\* the one set of statistics of the first call are in place
C18_Witness ==
  \E p \in Procs :
    /\ proc[p].pc = "done"
    /\ proc[p].outcome = "validation"
    /\ OwnTournamentCall(p)
    /\ Winner(db) # NilId
    /\ Cardinality(StatBatches(db)) = 1
    /\ \A q \in Procs \ {p} : proc[q].pc = "idle"

\* q has a tournament rating in d that no player's rating in d exceeds
HighestRated(d, q) ==
  /\ Has(d.pts[q])
  /\ \A o \in Players : Has(d.pts[o]) => Val(d.pts[o]) <= Val(d.pts[q])

\* p's complete_tournament runs its winner query and goes on
PicksWinner(p) == proc[p].pc = "calculate_winner" /\ proc'[p].pc = "race_stats"

\* C19: the winner a successful complete_tournament stores is the player its
\* winner query picked, and at the time of that query, during the call, the
\* player's tournament rating was at least every other player's
C19_WinnerHasHighestRating ==
  [][\A p \in Procs :
       /\ PicksWinner(p) => HighestRated(db, proc'[p].loc.winner_id)
       /\ proc[p].pc \in CompletionInFlight /\ proc'[p].pc \in CompletionInFlight
            /\ proc[p].pc \notin {"find_tournament", "calculate_winner"}
            => proc'[p].loc.winner_id = proc[p].loc.winner_id
       /\ CommitsTournament(p) => Winner(db') = proc[p].loc.winner_id]_vars

\* a tournament closed with the one player of highest rating as its winner,
\* the ratings of the three players all different
C19_Witness ==
  /\ Winner(db) \in Players
  /\ \A q \in Players : Has(db.pts[q])
  /\ \A q \in Players \ {Winner(db)} : Val(db.pts[q]) < Val(db.pts[Winner(db)])
  /\ \E p \in Procs : proc[p].pc = "done" /\ proc[p].outcome = "ok" /\ OwnTournamentCall(p)

\* the tournament has no player_tournament_scores row in d
NoTournamentScores(d) == \A q \in Players : ~Has(d.pts[q])

\* p's complete_tournament runs its winner query on a tournament without
\* rating rows
QueriesEmptyTournament(p) ==
  /\ proc[p].pc = "calculate_winner"
  /\ proc'[p] # proc[p]
  /\ NoTournamentScores(db)

\* C20: complete_tournament on a tournament that has no tournament-rating
\* rows fails with a validation error, leaves the winner unset and writes no
\* statistics
C20_EmptyTournamentRefused ==
  [][\A p \in Procs :
       QueriesEmptyTournament(p) =>
         /\ proc'[p].pc = "done"
         /\ ghost'.faulted[p] \/ proc'[p].outcome = "validation"
         /\ db' = db
         /\ Winner(db') = NilId
         /\ StatBatches(db') = {}]_vars

\* a call on the open tournament has been refused with the validation error
\* while a match exists and no player has a tournament rating
C20_Witness ==
  \E p \in Procs :
    /\ proc[p].pc = "done"
    /\ proc[p].outcome = "validation"
    /\ OwnTournamentCall(p)
    /\ NoTournamentScores(db)
    /\ Winner(db) = NilId
    /\ StatBatches(db) = {}
    /\ \E m \in MatchIds : Has(db.matches[m])

\* C21: the winner and the statistics are persisted together: in every
\* committed state the tournament has a winner if and only if it has
\* statistics rows, also after a complete_tournament that failed part-way
C21_WinnerIffStats == (Winner(db) # NilId) <=> (StatBatches(db) # {})

\* a transaction of complete_tournament has written the winner and not yet
\* the statistics, the committed tournament has neither, and the other
\* client's complete_tournament has failed with an error
C21_Witness ==
  \E p \in Procs :
    /\ proc[p].pc = "insert_stats"
    /\ Winner(View(p)) # NilId
    /\ StatBatches(View(p)) = {}
    /\ Winner(db) = NilId
    /\ StatBatches(db) = {}
    /\ \E q \in Procs \ {p} :
         /\ proc[q].pc = "done"
         /\ proc[q].outcome \in {"internal", "validation"}
         /\ OwnTournamentCall(q)



\* the matches of the committed database
CreatedMatches(d) == {m \in DOMAIN d.matches : Has(d.matches[m])}

RoundNumbers(d, m) == {k[2] : k \in MatchRounds(d, m)}

Unscored(d, m) ==
  /\ \A k \in MatchRounds(d, m) : ~Val(d.rounds[k]).completed
  /\ \A k \in DOMAIN d.race_scores : k[1] = m => ~Has(d.race_scores[k])

\* C22: a match created by create_match for R rounds is not completed and
\* has exactly R round rows, numbered 1..R, none of them scored.
C22_ExactlyRRoundRows ==
  \A m \in CreatedMatches(db) :
    /\ ~Val(db.matches[m]).completed
    /\ RoundNumbers(db, m) = 1..Val(db.matches[m]).rounds
    /\ Unscored(db, m)

\* the same for the matches whose round count the catalog can serve
C22_RoundRowsWithinCatalog ==
  \A m \in CreatedMatches(db) :
    Val(db.matches[m]).rounds <= Cardinality(find_all(db)) =>
      /\ ~Val(db.matches[m]).completed
      /\ RoundNumbers(db, m) = 1..Val(db.matches[m]).rounds
      /\ Unscored(db, m)

\* a committed match with more rounds than the catalog has tracks
C22_ShortOfRounds ==
  \E m \in CreatedMatches(db) :
    /\ Val(db.matches[m]).rounds > Cardinality(find_all(db))
    /\ RoundNumbers(db, m) = 1..Cardinality(find_all(db))
    /\ Has(db.round_players[<<m, Val(db.matches[m]).rounds>>])

\* the request of p is a create_match
CreateCall(p) == proc[p].call.op = "create_match"

\* the five grounds on which create_match refuses its arguments
Rejectable(call) ==
  \/ call.player_ids = <<>>
  \/ call.num_races < 1
  \/ call.players_per_race < 1
  \/ call.players_per_race > Len(call.player_ids)
  \/ call.num_races * call.players_per_race < Len(call.player_ids)

Publishes == ghost'.channel # ghost.channel

\* C24: a notification is sent only by a request whose transaction has
\* committed: the sender holds no open transaction and its match is in the
\* committed database; a request that ends in an error sends nothing; and
\* the notify step returns the created match and leaves the database alone
\* whether or not the notification reached anyone.
C24_NotifyOnlyAfterCommit ==
  [][/\ Publishes =>
          \E p \in Procs :
            /\ proc[p].pc = "notify"
            /\ locks[p] = NoLocks
            /\ Has(db.matches[proc[p].call.match_id])
            /\ ghost'.channel = ghost.channel \cup {MatchCreated(proc[p].call.match_id)}
     /\ \A p \in Procs :
          /\ CreateCall(p) /\ proc[p].pc # "done" /\ proc'[p].pc = "done"
               /\ proc'[p].outcome # "ok"
             => /\ ~Publishes
                /\ db' = db
          /\ proc[p].pc = "notify" /\ proc'[p] # proc[p]
             => /\ proc'[p].pc = "done"
                /\ proc'[p].outcome = "ok"
                /\ db' = db]_vars

\* the created match is committed, its notification is on the channel and
\* the request has returned the match
C24_Witness ==
  \E p \in Procs :
    /\ CreateCall(p)
    /\ proc[p].pc = "done"
    /\ proc[p].outcome = "ok"
    /\ Has(db.matches[proc[p].call.match_id])
    /\ ghost.channel = {MatchCreated(proc[p].call.match_id)}

\* the request has returned the match although nobody received the
\* notification
C24_UndeliveredStillOk ==
  \E p \in Procs :
    /\ CreateCall(p)
    /\ proc[p].pc = "done"
    /\ proc[p].outcome = "ok"
    /\ Has(db.matches[proc[p].call.match_id])
    /\ ghost.channel = {}

\* the request of p has called one of the two team allocators
TeamCall(p) ==
  /\ proc[p].pc \in {"teams_allocated", "races_allocated"}
  /\ proc[p].call.op \in {"allocate_teams", "allocate_teams_randomly"}

TeamSize(teams, t) == Len(teams[t].players)

\* the places <<team, position>> at which the player stands in the teams
Places(teams, player) ==
  {tp \in UNION {{<<t, i>> : i \in 1..TeamSize(teams, t)} : t \in 1..Len(teams)} :
     teams[tp[1]].players[tp[2]] = player}

\* C25: for N >= 1 players and a requested team count of at least 1, both
\* team allocators return min(requested, N) teams numbered from 1, every
\* input player stands at exactly one place of exactly one team and nobody
\* else does, two team sizes differ by at most 1, and no team is larger
\* than a team with a lower number.
C25_TeamsPartitionPlayers ==
  \A p \in Procs :
    TeamCall(p) =>
      LET players == proc[p].loc.players
          teams == proc[p].loc.teams
          K == Min(proc[p].call.players_per_race, Len(players))
      IN  /\ Len(teams) = K
          /\ \A t \in 1..Len(teams) : teams[t].team_num = t
          /\ \A i \in 1..Len(players) : Cardinality(Places(teams, players[i])) = 1
          /\ SumSeq([t \in 1..Len(teams) |-> TeamSize(teams, t)]) = Len(players)
          /\ \A t, u \in 1..Len(teams) :
               /\ Abs(TeamSize(teams, t) - TeamSize(teams, u)) <= 1
               /\ t < u => TeamSize(teams, t) >= TeamSize(teams, u)

\* the random allocator has put four players into three teams, the last
\* player of the list leading the first team
C25_Witness ==
  \E p \in Procs :
    /\ TeamCall(p)
    /\ proc[p].call.op = "allocate_teams_randomly"
    /\ Len(proc[p].loc.players) = 4
    /\ proc[p].call.players_per_race = 3
    /\ Len(proc[p].loc.teams) = 3
    /\ proc[p].loc.teams[1].players[1].id = "d"

\* the rating the allocator goes by: the tournament rating when there is
\* one, the all-time rating otherwise
RatingOf(p, player) ==
  IF player.id \in DOMAIN proc[p].loc.elo_ratings
  THEN proc[p].loc.elo_ratings[player.id] ELSE player.elo_rating

\* how many players are taken before players[i]: the higher rated ones and
\* the equally rated ones that stand earlier in the list
Rank(p, i) ==
  LET players == proc[p].loc.players
  IN  Cardinality({j \in 1..Len(players) :
                     \/ RatingOf(p, players[j]) > RatingOf(p, players[i])
                     \/ /\ RatingOf(p, players[j]) = RatingOf(p, players[i])
                        /\ j < i})

\* the members of team t taken before players[i], as indices of the list
TakenBefore(p, t, i) ==
  {j \in 1..Len(proc[p].loc.players) :
     /\ Rank(p, j) < Rank(p, i)
     /\ \E tp \in Places(proc[p].loc.teams, proc[p].loc.players[j]) : tp[1] = t}

TotalBefore(p, t, i) ==
  SumOver([j \in 1..Len(proc[p].loc.players) |->
             RatingOf(p, proc[p].loc.players[j])], TakenBefore(p, t, i))

\* C26: in balanced mode, taking the players in descending rating order
\* (equal ratings in list order), every player went to a team whose total
\* rating at that moment was lowest among the teams not yet full, and to
\* the lowest numbered of those on a tie; a team lists its players in the
\* order they were taken.
C26_GreedyLowestTotal ==
  \A p \in Procs :
    TeamCall(p) /\ proc[p].call.op = "allocate_teams" =>
      LET players == proc[p].loc.players
          teams == proc[p].loc.teams
      IN  \A i \in 1..Len(players) :
            \A tp \in Places(teams, players[i]) :
              /\ Cardinality(TakenBefore(p, tp[1], i)) = tp[2] - 1
              /\ \A u \in 1..Len(teams) :
                   Cardinality(TakenBefore(p, u, i)) < TeamSize(teams, u) =>
                     \/ TotalBefore(p, tp[1], i) < TotalBefore(p, u, i)
                     \/ /\ TotalBefore(p, tp[1], i) = TotalBefore(p, u, i)
                        /\ tp[1] <= u

\* four players of equal tournament rating in two teams: the totals tie at
\* every turn, so the players went to teams 1, 2, 1, 2
C26_Witness ==
  \E p \in Procs :
    /\ TeamCall(p)
    /\ proc[p].call.op = "allocate_teams"
    /\ Len(proc[p].loc.players) = 4
    /\ proc[p].call.players_per_race = 2
    /\ \A i \in 1..4 : RatingOf(p, proc[p].loc.players[i]) = 1200
    /\ proc[p].loc.teams[1].players[2].id = "c"
    /\ proc[p].loc.teams[2].players[2].id = "d"

\* the request of p has called the race scheduler
RaceCall(p) == proc[p].pc = "races_allocated"

MemberIds(teams, t) == {teams[t].players[i].id : i \in 1..TeamSize(teams, t)}

\* C27: for non-empty teams and R >= 1 rounds the race scheduler returns
\* exactly R line-ups, the r-th numbered r, and every line-up holds one
\* player per team: exactly one member of every team.
C27_OnePlayerPerTeamPerRound ==
  \A p \in Procs :
    RaceCall(p) =>
      LET teams == proc[p].loc.teams
          lineups == proc[p].loc.race_allocations
      IN  /\ Len(lineups) = proc[p].call.num_races
          /\ \A r \in 1..Len(lineups) :
               /\ lineups[r].race_number = r
               /\ Len(lineups[r].player_ids) = Len(teams)
               /\ \A t \in 1..Len(teams) :
                    Cardinality({i \in 1..Len(lineups[r].player_ids) :
                                   lineups[r].player_ids[i] \in MemberIds(teams, t)}) = 1

\* five rounds were scheduled for a team of one and a team of three
C27_Witness ==
  \E p \in Procs :
    /\ RaceCall(p)
    /\ proc[p].call.num_races = 5
    /\ Len(proc[p].loc.teams) = 2
    /\ TeamSize(proc[p].loc.teams, 1) = 1
    /\ TeamSize(proc[p].loc.teams, 2) = 3
    /\ Len(proc[p].loc.race_allocations) = 5

\* the number of line-ups the player is in
Uses(lineups, id) ==
  Cardinality({r \in 1..Len(lineups) :
                 \E i \in 1..Len(lineups[r].player_ids) : lineups[r].player_ids[i] = id})

\* C28: for non-empty teams and R >= 1 rounds, two players of the same team
\* are scheduled for numbers of rounds that differ by at most 1, in the
\* largest team and in every other team.
C28_UsesWithinTeamDifferByOne ==
  \A p \in Procs :
    RaceCall(p) =>
      LET teams == proc[p].loc.teams
          lineups == proc[p].loc.race_allocations
      IN  \A t \in 1..Len(teams) :
            \A x, y \in MemberIds(teams, t) :
              Abs(Uses(lineups, x) - Uses(lineups, y)) <= 1

\* three rounds for two teams of two: the second team rotates, the players
\* of the first are picked by rating distance and use, and race twice and
\* once
C28_Witness ==
  \E p \in Procs :
    /\ RaceCall(p)
    /\ proc[p].call.num_races = 3
    /\ Len(proc[p].loc.teams) = 2
    /\ TeamSize(proc[p].loc.teams, 1) = 2
    /\ TeamSize(proc[p].loc.teams, 2) = 2
    /\ {Uses(proc[p].loc.race_allocations, x) : x \in MemberIds(proc[p].loc.teams, 1)}
         = {1, 2}

\* the tracks of the rounds of match m, in round order
DrawOf(d, m) ==
  [r \in 1..Cardinality(MatchRounds(d, m)) |-> Val(d.rounds[<<m, r>>]).track_id]

\* the tracks of the matches MatchOrder[i..j], in play order
RECURSIVE Drawn(_, _, _)
Drawn(d, i, j) ==
  IF i > j THEN <<>> ELSE DrawOf(d, MatchOrder[i]) \o Drawn(d, i + 1, j)

\* the number of matches created so far
Created(d) == Cardinality(CreatedMatches(d))

NoRepeat(s) == \A i, j \in 1..Len(s) : s[i] = s[j] => i = j

CatalogSize(d) == Cardinality(find_all(d))

\* C29: in a tournament, consecutive draws (each stored as the rounds of a
\* match before the next draw) whose sizes add up to the catalog size hold
\* no track twice.
C29_NoRepeatAcrossFullCatalog ==
  \A i, j \in 1..Created(db) :
    i <= j /\ Len(Drawn(db, i, j)) = CatalogSize(db) => NoRepeat(Drawn(db, i, j))

\* the same for the draws that begin with the first match of the tournament
C29_FirstCycleNoRepeat ==
  \A j \in 1..Created(db) :
    Len(Drawn(db, 1, j)) = CatalogSize(db) => NoRepeat(Drawn(db, 1, j))

\* the first draws used up the catalog exactly, and the draws after them,
\* which again add up to the catalog size, hold a track twice
C29_SecondCycleRepeats ==
  \E i, j \in 1..Created(db) :
    /\ i < j
    /\ Len(Drawn(db, 1, i)) = CatalogSize(db)
    /\ Len(Drawn(db, i + 1, j)) = CatalogSize(db)
    /\ ~NoRepeat(Drawn(db, i + 1, j))

\* the track-rounds of the tournament so far
PlayedRounds(d) == Len(Drawn(d, 1, Created(d)))

\* a draw of num_races tracks asks for more than the current cycle has left
Straddles(d, num_races) ==
  num_races > CatalogSize(d) - (PlayedRounds(d) % CatalogSize(d))

EloCall(p) ==
  /\ proc[p].pc = "elo_calculated"
  /\ proc[p].call.op = "calculate_elo_changes"

\* C31: for human results with pairwise distinct positions in 1..24, the
\* synthetic field has exactly 24 entries holding each position 1..24 exactly
\* once, every human keeps their own position and rating, and the ratings of
\* the CPU entries do not increase as position increases
C31_FieldOfTwentyFour ==
  \A p \in Procs :
    EloCall(p) =>
      LET humans == proc[p].loc.human_results
          field == proc[p].loc.full_field
          cpus == {i \in 1..Len(field) : field[i].player_id = NilId}
      IN  /\ Len(field) = 24
          /\ \A position \in 1..24 :
                Cardinality({i \in 1..Len(field) : field[i].position = position}) = 1
          /\ \A h \in 1..Len(humans) :
                Cardinality({i \in 1..Len(field) : field[i] = humans[h]}) = 1
          /\ Cardinality(cpus) = 24 - Len(humans)
          /\ \A i, j \in cpus :
                field[i].position < field[j].position
                  => field[i].current_elo >= field[j].current_elo

\* three humans, one of them last, have had their field filled
C31_Witness ==
  /\ EloCall("p1")
  /\ Len(proc["p1"].loc.human_results) = 3
  /\ \E h \in 1..3 : proc["p1"].loc.human_results[h].position = 24
  /\ \E i \in 1..Len(proc["p1"].loc.full_field) :
        /\ proc["p1"].loc.full_field[i].player_id = NilId
        /\ proc["p1"].loc.full_field[i].current_elo = MIN_CPU_ELO

\* C32: in a race with at least two equally-rated humans of whom two finish
\* 1st and 2nd, the rating delta of the 1st-place human is strictly greater
\* than the rating delta of the 2nd-place human
C32_FirstGainsMoreThanSecond ==
  \A p \in Procs :
    EloCall(p) =>
      LET humans == proc[p].loc.human_results
          changes == proc[p].loc.all_time_elo_changes
      IN  \A i, j \in 1..Len(humans) :
            /\ humans[i].position = 1
            /\ humans[j].position = 2
            /\ humans[i].current_elo = humans[j].current_elo
            => /\ changes[i].player_id = humans[i].player_id
               /\ changes[j].player_id = humans[j].player_id
               /\ changes[i].elo_change > changes[j].elo_change

\* two humans rated 1500 finished 2nd and 1st, in that order of submission,
\* ahead of a weaker third human
C32_Witness ==
  /\ EloCall("p1")
  /\ Len(proc["p1"].loc.human_results) = 3
  /\ proc["p1"].loc.human_results[1].position = 2
  /\ proc["p1"].loc.human_results[2].position = 1
  /\ proc["p1"].loc.human_results[1].current_elo = 1500
  /\ proc["p1"].loc.human_results[2].current_elo = 1500
  /\ proc["p1"].loc.human_results[3].current_elo = 1000
  /\ proc["p1"].loc.all_time_elo_changes[2].elo_change
       > proc["p1"].loc.all_time_elo_changes[1].elo_change

\* the call of calculate_teammate_contributions a client has just made
ContributionCall(p) ==
  /\ proc[p].pc = "contributions_calculated"
  /\ proc[p].call.op = "calculate_teammate_contributions"

\* the players of the results passed to the call
RacersOf(p) == {proc[p].call.results[i].player_id : i \in 1..Len(proc[p].call.results)}

\* how many records go from one player to another
RecordsFromTo(p, source, beneficiary) ==
  Cardinality({i \in 1..Len(proc[p].loc.contributions) :
                 /\ proc[p].loc.contributions[i].source_player_id = source
                 /\ proc[p].loc.contributions[i].beneficiary_player_id = beneficiary})

\* C33: for every player who raced in the round, the calculator produces
\* exactly one record to each other member of that player's team, including
\* members who did not race, and no record from a player to themself or to a
\* member of another team
C33_OneRecordPerTeammate ==
  \A p \in Procs :
    ContributionCall(p) =>
      /\ \A source \in RacersOf(p), x \in Players :
            RecordsFromTo(p, source, x) =
              IF /\ x # source
                 /\ proc[p].loc.player_to_team[x] = proc[p].loc.player_to_team[source]
              THEN 1 ELSE 0
      /\ \A i \in 1..Len(proc[p].loc.contributions) :
            proc[p].loc.contributions[i].source_player_id \in RacersOf(p)

\* one player of a team of two raced, against a player of another team: the
\* teammate who did not race gets the one record of the first, the lone
\* player gives none
C33_Witness ==
  /\ ContributionCall("p1")
  /\ RacersOf("p1") = {"a", "c"}
  /\ proc["p1"].loc.player_to_team["a"] = proc["p1"].loc.player_to_team["b"]
  /\ proc["p1"].loc.player_to_team["a"] # proc["p1"].loc.player_to_team["c"]
  /\ Len(proc["p1"].loc.contributions) = 1
  /\ RecordsFromTo("p1", "a", "b") = 1

C35_AfterValueIsPersistedRating ==
  [][\A p \in Procs :
       CommitsOk(p) =>
         \A q \in ResultPlayers(proc[p].call.results) :
           LET k == <<proc[p].call.match_id, proc[p].call.round_number, q>>
           IN  /\ Has(db'.race_scores[k])
               /\ ~Has(db.race_scores[k])
               /\ Has(db'.pts[q])
               /\ Val(db'.race_scores[k]).tournament_elo_after = Val(db'.pts[q])]_vars

\* a second round has been recorded for a racer whose tournament rating an
\* earlier commit had moved away from 1200: the row's after-value is the
\* persisted rating and is not 1200 plus the round's delta
C35_Witness ==
  \E p \in Procs :
    /\ proc[p].pc = "done" /\ proc[p].outcome = "ok"
    /\ Len(ghost.hist) = 2
    /\ \E q \in ResultPlayers(proc[p].call.results) :
          LET k == <<proc[p].call.match_id, proc[p].call.round_number, q>>
          IN  /\ Has(db.race_scores[k])
              /\ Val(db.race_scores[k]).tournament_elo_change # 0
              /\ Val(db.race_scores[k]).tournament_elo_after = Val(db.pts[q])
              /\ Val(db.pts[q]) # STARTING_TOURNAMENT_ELO
              /\ Val(db.race_scores[k]).tournament_elo_after
                   # STARTING_TOURNAMENT_ELO + Val(db.race_scores[k]).tournament_elo_change

\* the all-time delta of the race-score row of q in round r of match m
OwnAllTimeDelta(d, m, r, q) ==
  IF Has(d.race_scores[<<m, r, q>>])
  THEN Val(d.race_scores[<<m, r, q>>]).all_time_elo_change ELSE 0

\* C36: the commit of a successful record_round_results changes the all-time
\* rating of the players who raced in the round, each by their own all-time
\* delta, and leaves the all-time rating of every other player, teammates
\* who receive a contribution included, unchanged
C36_AllTimeMovesByOwnDelta ==
  [][\A p \in Procs :
       CommitsOk(p) =>
         \A q \in Players :
           Ratings(db')[q].all_time
           = IF q \in ResultPlayers(proc[p].call.results)
             THEN Row(Val(Ratings(db)[q].all_time)
                      + OwnAllTimeDelta(db', proc[p].call.match_id,
                                        proc[p].call.round_number, q))
             ELSE Ratings(db)[q].all_time]_vars

\* the part that holds for overlapping requests too: a commit leaves the
\* all-time rating of every player who did not race in its round unchanged,
\* beneficiaries of its contributions included, and sets each racer's to the
\* after-value of the racer's new race-score row
C36_OnlyRacersAllTimeWritten ==
  [][\A p \in Procs :
       CommitsOk(p) =>
         \A q \in Players :
           IF q \in ResultPlayers(proc[p].call.results)
           THEN Val(Ratings(db')[q].all_time)
                = Val(db'.race_scores[<<proc[p].call.match_id,
                                        proc[p].call.round_number, q>>]).all_time_elo_after
           ELSE Ratings(db')[q].all_time = Ratings(db)[q].all_time]_vars

\* a committed round has paid a contribution to a teammate who did not race
C36_BeneficiaryReached ==
  \E p \in Procs : \E q \in Players :
    /\ proc[p].pc = "done" /\ proc[p].outcome = "ok"
    /\ q \notin ResultPlayers(proc[p].call.results)
    /\ ContributionsReceivedIn(db, proc[p].call.match_id, proc[p].call.round_number, q) # 0
    /\ Val(db.pts[q]) # STARTING_TOURNAMENT_ELO

\* the ids of the players handed to the team allocator, in order
PlayerIdsOf(p) == [i \in 1..Len(proc[p].loc.players) |-> proc[p].loc.players[i].id]

\* the players some line-up of the schedule holds
ScheduledPlayers(lineups) == UNION {Range(lineups[r].player_ids) : r \in 1..Len(lineups)}

\* C37: for every player list, round count and players-per-race that
\* create-match validation accepts, the line-ups scheduled for the teams
\* built from them hold every player of the match in at least one round
C37_EveryPlayerScheduled ==
  \A p \in Procs :
    /\ RaceCall(p)
    /\ TeamCall(p)
    /\ validate_create_match_inputs(PlayerIdsOf(p), proc[p].call.num_races,
                                    proc[p].call.players_per_race)
    => Range(PlayerIdsOf(p)) \subseteq ScheduledPlayers(proc[p].loc.race_allocations)

\* four players in three teams over two rounds, the fewest rounds the
\* validation accepts: the team of two has sent both its players
C37_Witness ==
  /\ RaceCall("p1")
  /\ proc["p1"].call.op = "allocate_teams"
  /\ Len(proc["p1"].loc.players) = 4
  /\ proc["p1"].call.players_per_race = 3
  /\ proc["p1"].call.num_races = 2
  /\ validate_create_match_inputs(PlayerIdsOf("p1"), 2, 3)
  /\ ~validate_create_match_inputs(PlayerIdsOf("p1"), 1, 3)
  /\ Range(PlayerIdsOf("p1")) = ScheduledPlayers(proc["p1"].loc.race_allocations)

\* the same for a match as create_match persists it: every player of a
\* created match that has all its rounds stands in the stored line-up of
\* one of them (a match short of rounds, see C22, is left out)
C37_CreatedMatchSchedulesEveryone ==
  \A m \in CreatedMatches(db) :
    Cardinality(RoundNumbers(db, m)) = Val(db.matches[m]).rounds =>
      \A q \in Players :
        Has(db.pms[<<m, q>>])
          => \E r \in RoundNumbers(db, m) : q \in Range(get_round_players(db, m, r))

\* a match of three players and three rounds, one player a round, is stored
C37_CreatedMatchReached ==
  \E m \in CreatedMatches(db) :
    /\ Cardinality(RoundNumbers(db, m)) = 3
    /\ Cardinality({q \in Players : Has(db.pms[<<m, q>>])}) = 3
    /\ \A r \in RoundNumbers(db, m) : Len(get_round_players(db, m, r)) = 1

\* the nine statistic kinds of TournamentStatType
NineKinds ==
  {"best_race", "worst_race", "biggest_swing", "best_teammate", "worst_teammate",
   "most_helped", "most_hurt", "best_match", "worst_match"}

\* how many statistics rows of a kind the tournament holds in d
RowsOfKind(d, kind) ==
  Cardinality({p \in StatBatches(d) :
                 kind \in DOMAIN Val(d.tournament_stats[<<TournamentId, p>>])})

\* C38, first half: the commit of a successful complete_tournament adds
\* exactly one statistics row for each of the nine kinds
C38_SuccessWritesNineKinds ==
  [][\A p \in Procs :
       CommitsTournament(p) =>
         /\ ~Has(db.tournament_stats[<<TournamentId, p>>])
         /\ Has(db'.tournament_stats[<<TournamentId, p>>])
         /\ DOMAIN Val(db'.tournament_stats[<<TournamentId, p>>]) = NineKinds
         /\ \A kind \in NineKinds :
              /\ Val(db'.tournament_stats[<<TournamentId, p>>])[kind] # {}
              /\ RowsOfKind(db', kind) = RowsOfKind(db, kind) + 1]_vars

\* C38: a successful complete_tournament writes exactly one statistics row
\* for each of the nine statistic kinds, and a tournament never holds more
\* than one row of the same kind
C38_OneRowPerKind ==
  [][/\ \A p \in Procs :
          CommitsTournament(p) =>
            \A kind \in NineKinds : RowsOfKind(db', kind) = RowsOfKind(db, kind) + 1
     /\ \A kind \in NineKinds : RowsOfKind(db', kind) <= 1]_vars

\* one successful call has left one row of every kind
C38_NineRowsReached ==
  /\ Cardinality(StatBatches(db)) = 1
  /\ \A kind \in NineKinds : RowsOfKind(db, kind) = 1

\* two successful calls have left two rows of every kind
C38_EighteenRowsReached ==
  /\ \A p \in Procs : proc[p].pc = "done" /\ proc[p].outcome = "ok"
  /\ \A kind \in NineKinds : RowsOfKind(db, kind) = 2

====
